---- MODULE Spec2Model ----
(***************************************************************************)
(* Model of the path / URL value objects of thingts/path.                  *)
(*                                                                         *)
(* A string is a sequence of one-character strings, so that the code's     *)
(* string processing (split, slice, startsWith, percent-encoding) is       *)
(* computed character by character, as the code computes it.               *)
(***************************************************************************)
EXTENDS Integers, Sequences, FiniteSets, TLC

VARIABLES cur, op, recv, args, out

vars == <<cur, op, recv, args, out>>

(***************************************************************************)
(* Bounds of the model.                                                    *)
(***************************************************************************)
MaxLen == 4
MaxArgLen == 4

\* the strings over alphabet A of length at most n
Strings(A, n) == UNION {[1..k -> A] : k \in 0..n}

PathChars == {"/", ".", "x"}

(***************************************************************************)
(* JavaScript string primitives.                                           *)
(***************************************************************************)
PATH_SEPARATOR == "/"

startsWith(s, c) == Len(s) > 0 /\ s[1] = c

endsWith(s, c) == Len(s) > 0 /\ s[Len(s)] = c

\* s.slice(from) with a 0-based index
sliceFrom(s, from) == SubSeq(s, from + 1, Len(s))

\* s.slice(0, to) with a 0-based exclusive end
sliceTo(s, to) == SubSeq(s, 1, to)

\* s.indexOf(c): 0-based, -1 when absent
indexOf(s, c) ==
  IF \E i \in 1..Len(s) : s[i] = c
    THEN (CHOOSE i \in 1..Len(s) : s[i] = c /\ \A j \in 1..(i - 1) : s[j] # c) - 1
    ELSE -1

\* s.lastIndexOf(c): 0-based, -1 when absent
lastIndexOf(s, c) ==
  IF \E i \in 1..Len(s) : s[i] = c
    THEN (CHOOSE i \in 1..Len(s) : s[i] = c /\ \A j \in (i + 1)..Len(s) : s[j] # c) - 1
    ELSE -1

\* s.split(c): always at least one element, '' splits to ['']
RECURSIVE split(_, _)
split(s, c) ==
  LET i == indexOf(s, c)
  IN IF i = -1 THEN <<s>>
     ELSE <<sliceTo(s, i)>> \o split(sliceFrom(s, i + 1), c)

\* parts.join(c)
RECURSIVE joinWith(_, _)
joinWith(parts, c) ==
  IF Len(parts) = 0 THEN <<>>
  ELSE IF Len(parts) = 1 THEN parts[1]
  ELSE parts[1] \o <<c>> \o joinWith(Tail(parts), c)

\* xs.filter(Boolean) on strings: drops '' (and null / undefined, modelled as '')
filterBoolean(xs) == SelectSeq(xs, LAMBDA x : Len(x) > 0)

\* the flattening of a sequence of sequences
RECURSIVE flatten(_)
flatten(xss) == IF Len(xss) = 0 THEN <<>> ELSE xss[1] \o flatten(Tail(xss))

(***************************************************************************)
(* tools/path-tools (pth)                                                  *)
(***************************************************************************)
pth_isAbsolute(p) == startsWith(p, PATH_SEPARATOR)

\* the loop body of normalizeSegments: one segment against the stack
normalizeStep(normalized, segment) ==
  IF Len(segment) = 0 \/ segment = <<".">> THEN normalized
  ELSE IF segment = <<".", ".">> /\ Len(normalized) > 0
          /\ normalized[Len(normalized)] # <<".", ".">>
    THEN SubSeq(normalized, 1, Len(normalized) - 1)
    ELSE Append(normalized, segment)

RECURSIVE normalizeLoop(_, _, _)
normalizeLoop(segments, i, normalized) ==
  IF i > Len(segments) THEN normalized
  ELSE normalizeLoop(segments, i + 1, normalizeStep(normalized, segments[i]))

normalizeSegments(segments) ==
  joinWith(normalizeLoop(segments, 1, <<>>), PATH_SEPARATOR)

\* pth_joinLoop that never stops at an absolute segment
RECURSIVE pth_joinLoop_neverResets(_, _, _, _, _)
pth_joinLoop_neverResets(filtered, i, resolvedParts, firstSegment, mode) ==
  IF i = 0 THEN [parts |-> resolvedParts, first |-> firstSegment]
  ELSE pth_joinLoop_neverResets(filtered, i - 1,
         split(filtered[i], PATH_SEPARATOR) \o resolvedParts, firstSegment, mode)

\* pth_joinLoop that stops at an absolute segment in both modes
RECURSIVE pth_joinLoop_alwaysResets(_, _, _, _, _)
pth_joinLoop_alwaysResets(filtered, i, resolvedParts, firstSegment, mode) ==
  IF i = 0 THEN [parts |-> resolvedParts, first |-> firstSegment]
  ELSE LET segment == filtered[i]
           parts == split(segment, PATH_SEPARATOR) \o resolvedParts
       IN IF startsWith(segment, PATH_SEPARATOR)
            THEN [parts |-> parts, first |-> segment]
            ELSE pth_joinLoop_alwaysResets(filtered, i - 1, parts, firstSegment, mode)

\* the backwards loop of joinOrResolve over the filtered segments
RECURSIVE pth_joinLoop(_, _, _, _, _)
pth_joinLoop(filtered, i, resolvedParts, firstSegment, mode) ==
  IF i = 0 THEN [parts |-> resolvedParts, first |-> firstSegment]
  ELSE LET segment == filtered[i]
           parts == split(segment, PATH_SEPARATOR) \o resolvedParts
       IN IF mode = "resolve" /\ startsWith(segment, PATH_SEPARATOR)
            THEN [parts |-> parts, first |-> segment]
            ELSE pth_joinLoop(filtered, i - 1, parts, firstSegment, mode)

pth_joinOrResolve(segments, mode) ==
  LET filtered == filterBoolean(segments)
      first0 == IF Len(segments) > 0 THEN segments[1] ELSE <<>>
      r == pth_joinLoop(filtered, Len(filtered), <<>>, first0, mode)
  IN (IF startsWith(r.first, PATH_SEPARATOR) THEN <<PATH_SEPARATOR>> ELSE <<>>)
       \o normalizeSegments(r.parts)

pth_resolve(segments) == pth_joinOrResolve(segments, "resolve")

pth_join(segments) == pth_joinOrResolve(segments, "join")

\* the steps of normalize on the joined segments
pth_withRoot(p, n0) == IF pth_isAbsolute(p) THEN <<PATH_SEPARATOR>> \o n0 ELSE n0

\* pth_stripDotSlash that tests for a leading '.' where the code tests for './'
pth_stripDotSlash_stripsLeadingDot(n1) ==
  IF Len(n1) >= 1 /\ n1[1] = "." THEN sliceFrom(n1, 2) ELSE n1

pth_stripDotSlash(n1) ==
  IF Len(n1) >= 2 /\ n1[1] = "." /\ n1[2] = PATH_SEPARATOR THEN sliceFrom(n1, 2) ELSE n1

pth_stripTrailingSlash(n2) ==
  IF endsWith(n2, PATH_SEPARATOR) THEN sliceTo(n2, Len(n2) - 1) ELSE n2

pth_orDot(n3) == IF n3 = <<>> THEN <<".">> ELSE n3

pth_normalizeTail(n2) ==
  IF n2 = <<PATH_SEPARATOR>> THEN n2 ELSE pth_orDot(pth_stripTrailingSlash(n2))

pth_normalize(p) ==
  pth_normalizeTail(
    pth_stripDotSlash(pth_withRoot(p, normalizeSegments(split(p, PATH_SEPARATOR)))))

\* the while loop of relative: the length of the common prefix
RECURSIVE pth_commonLen(_, _, _)
pth_commonLen(fromParts, toParts, i) ==
  IF i < Len(fromParts) /\ i < Len(toParts) /\ fromParts[i + 1] = toParts[i + 1]
    THEN pth_commonLen(fromParts, toParts, i + 1) ELSE i

pth_relativeFrom(fromParts, toParts, i) ==
  pth_orDot(joinWith([k \in 1..(Len(fromParts) - i) |-> <<".", ".">>]
                       \o SubSeq(toParts, i + 1, Len(toParts)), "/"))

pth_relativeOf(fromParts, toParts) ==
  pth_relativeFrom(fromParts, toParts, pth_commonLen(fromParts, toParts, 0))

pth_relative(from, to) ==
  pth_relativeOf(filterBoolean(split(pth_resolve(<<from>>), PATH_SEPARATOR)),
                 filterBoolean(split(pth_resolve(<<to>>), PATH_SEPARATOR)))

pth_descendsFromResult(relativePath, includeSelf) ==
  IF relativePath = <<".">> THEN includeSelf
  ELSE ~(Len(relativePath) >= 2 /\ relativePath[1] = "." /\ relativePath[2] = ".")

pth_descendsFrom(ancestor, target, includeSelf) ==
  pth_descendsFromResult(pth_relative(ancestor, target), includeSelf)

\* p.replace(/^\/+/, '')
RECURSIVE stripLeadingSlashes(_)
stripLeadingSlashes(p) ==
  IF startsWith(p, "/") THEN stripLeadingSlashes(Tail(p)) ELSE p

pth_conformAbsolute(p, absolute) ==
  LET isAbs == pth_isAbsolute(p)
  IN IF absolute THEN (IF isAbs THEN p ELSE <<PATH_SEPARATOR>> \o p)
     ELSE (IF isAbs THEN stripLeadingSlashes(p) ELSE p)

RECURSIVE stripTrailingSlashes(_)
stripTrailingSlashes(p) ==
  IF Len(p) > 1 /\ endsWith(p, PATH_SEPARATOR)
    THEN stripTrailingSlashes(sliceTo(p, Len(p) - 1)) ELSE p

pth_dirname(p0) ==
  IF Len(p0) = 0 THEN <<".">>
  ELSE LET p == stripTrailingSlashes(p0)
           idx == lastIndexOf(p, PATH_SEPARATOR)
       IN IF idx = -1 THEN <<".">>
          ELSE IF idx = 0 THEN <<PATH_SEPARATOR>>
          ELSE sliceTo(p, idx)

(***************************************************************************)
(* tools/url-tools (urt): pathname normalisation                           *)
(***************************************************************************)
urt_withTrailingSlash(path, pathNormalized) ==
  IF pathNormalized = <<>> THEN <<".">>
  ELSE pathNormalized \o (IF endsWith(path, "/") /\ path # <<"/">> THEN <<"/">> ELSE <<>>)

urt_normalizePathname(path) == urt_withTrailingSlash(path, pth_normalize(path))

(***************************************************************************)
(* Plain paths: PathBase, AbsolutePath, RelativePath.                      *)
(* An instance is [kind, path]; a constructor that throws gives PathError. *)
(***************************************************************************)
PathError == [kind |-> "error", path |-> <<>>]

PathBase_new(kind, path) == [kind |-> kind, path |-> pth_normalize(path)]

AbsolutePath_new(path) ==
  IF ~pth_isAbsolute(path) THEN PathError
  ELSE PathBase_new("abs", pth_resolve(<<path>>))

RelativePath_new(relpath) ==
  IF pth_isAbsolute(relpath) THEN PathError
  ELSE PathBase_new("rel", relpath)

\* new ctor(...) with this.constructor
Path_new(kind, path) ==
  IF kind = "abs" THEN AbsolutePath_new(path) ELSE RelativePath_new(path)

PathBase_cloneWithPath(this, path) ==
  Path_new(this.kind, pth_conformAbsolute(path, pth_isAbsolute(this.path)))

PathBase_join(this, segments) ==
  PathBase_cloneWithPath(this, pth_join(<<this.path>> \o filterBoolean(segments)))

PathBase_equals(this, other) ==
  this.path = PathBase_cloneWithPath(this, other).path

AbsolutePath_resolve(this, segments) ==
  PathBase_cloneWithPath(this, pth_resolve(<<this.path>> \o filterBoolean(segments)))

AbsolutePath_relativeTo(this, base) ==
  RelativePath_new(pth_relative(base.path, this.path))

(***************************************************************************)
(* The normalisers applied to raw strings.                                 *)
(***************************************************************************)
NoOut == <<>>

InitNorm ==
  /\ cur \in Strings(PathChars, MaxLen)
  /\ op = "raw"
  /\ recv = <<>>
  /\ args = <<>>
  /\ out = NoOut

Normalize ==
  /\ cur' = pth_normalize(cur)
  /\ op' = "normalize"
  /\ recv' = cur
  /\ UNCHANGED <<args, out>>

NormalizePathname ==
  /\ cur' = urt_normalizePathname(cur)
  /\ op' = "normalizePathname"
  /\ recv' = cur
  /\ UNCHANGED <<args, out>>

NextNorm == Normalize \/ NormalizePathname

SpecNorm == InitNorm /\ [][NextNorm]_vars

(***************************************************************************)
(* Plain path instances and their operations.                              *)
(*                                                                         *)
(* An argument list is written as one text with "," between the arguments, *)
(* so that one bound covers the number and the length of the arguments; an *)
(* empty argument stands for null, undefined or ''.  Operations act on a   *)
(* freshly constructed instance; Copy is the copy constructor, which hands *)
(* a result on to the next operation.                                      *)
(***************************************************************************)
PathArgs == {split(t, ",") : t \in Strings(PathChars \cup {","}, MaxArgLen)}

InitPath ==
  /\ \E kind \in {"abs", "rel"}, s \in Strings(PathChars, MaxLen) :
       /\ Path_new(kind, s) # PathError
       /\ cur = Path_new(kind, s)
  /\ op = "new"
  /\ recv = PathError
  /\ args = <<>>
  /\ out = NoOut

Copy ==
  /\ op # "new"
  /\ Len(cur.path) <= MaxLen
  /\ cur' = Path_new(cur.kind, cur.path)
  /\ op' = "new"
  /\ recv' = PathError
  /\ args' = <<>>
  /\ UNCHANGED out

Join ==
  /\ op = "new"
  /\ \E a \in PathArgs :
       /\ cur' = PathBase_join(cur, a)
       /\ args' = a
  /\ op' = "join"
  /\ recv' = cur
  /\ UNCHANGED out

Resolve ==
  /\ op = "new"
  /\ cur.kind = "abs"
  /\ \E a \in PathArgs :
       /\ cur' = AbsolutePath_resolve(cur, a)
       /\ args' = a
  /\ op' = "resolve"
  /\ recv' = cur
  /\ UNCHANGED out

RelativeTo ==
  /\ op = "new"
  /\ cur.kind = "abs"
  /\ \E b \in Strings(PathChars, MaxLen) :
       /\ AbsolutePath_new(b) # PathError
       /\ cur' = AbsolutePath_relativeTo(cur, AbsolutePath_new(b))
       /\ args' = <<AbsolutePath_new(b).path>>
  /\ op' = "relativeTo"
  /\ recv' = cur
  /\ UNCHANGED out

NextPath == Copy \/ Join \/ Resolve \/ RelativeTo

SpecPath == InitPath /\ [][NextPath]_vars


(***************************************************************************)
(* Characters.  Ascii[n + 1] is the character with code n; the control     *)
(* characters and the grave accent, which have no string literal, carry    *)
(* their names.                                                            *)
(***************************************************************************)
Ascii ==
  <<
    "NUL", "SOH", "STX", "ETX", "EOT", "ENQ", "ACK", "BEL",
    "BS", "HT", "LF", "VT", "FF", "CR", "SO", "SI",
    "DLE", "DC1", "DC2", "DC3", "DC4", "NAK", "SYN", "ETB",
    "CAN", "EM", "SUB", "ESC", "FS", "GS", "RS", "US",
    " ", "!", "\"", "#", "$", "%", "&", "'",
    "(", ")", "*", "+", ",", "-", ".", "/",
    "0", "1", "2", "3", "4", "5", "6", "7",
    "8", "9", ":", ";", "<", "=", ">", "?",
    "@", "A", "B", "C", "D", "E", "F", "G",
    "H", "I", "J", "K", "L", "M", "N", "O",
    "P", "Q", "R", "S", "T", "U", "V", "W",
    "X", "Y", "Z", "[", "\\", "]", "^", "_",
    "GRAVE", "a", "b", "c", "d", "e", "f", "g",
    "h", "i", "j", "k", "l", "m", "n", "o",
    "p", "q", "r", "s", "t", "u", "v", "w",
    "x", "y", "z", "{", "|", "}", "~", "DEL"
  >>

CharSet == {Ascii[i] : i \in DOMAIN Ascii}

\* String.prototype.charCodeAt
Ord == [c \in CharSet |-> (CHOOSE i \in DOMAIN Ascii : Ascii[i] = c) - 1]

HexDigits == <<"0", "1", "2", "3", "4", "5", "6", "7", "8", "9", "A", "B", "C", "D", "E", "F">>

Digits == {"0", "1", "2", "3", "4", "5", "6", "7", "8", "9"}

Letters == {Ascii[n + 1] : n \in (65..90) \cup (97..122)}

\* [0-9a-f] under the i flag
isHex(c) == c \in Digits \/ (c \in Letters /\ (Ord[c] \in 65..70 \/ Ord[c] \in 97..102))

hexVal(c) ==
  IF c \in Digits THEN Ord[c] - 48
  ELSE IF Ord[c] >= 97 THEN Ord[c] - 87 ELSE Ord[c] - 55

\* String.prototype.toLowerCase
toLowerCase(s) ==
  [i \in 1..Len(s) |-> IF s[i] \in Letters /\ Ord[s[i]] <= 90 THEN Ascii[Ord[s[i]] + 33] ELSE s[i]]

\* the %XX escape of a character
pctEncode(c) == <<"%", HexDigits[(Ord[c] \div 16) + 1], HexDigits[(Ord[c] % 16) + 1]>>

\* characters encodeURIComponent leaves alone: A-Z a-z 0-9 - _ . ! ~ * ' ( )
UriUnescaped == Letters \cup Digits \cup {"-", "_", ".", "!", "~", "*", "'", "(", ")"}

\* characters encodeURI leaves alone in addition: ; / ? : @ & = + $ , #
UriReserved == {";", "/", "?", ":", "@", "&", "=", "+", "$", ",", "#"}

encodeURIComponent(s) ==
  flatten([i \in 1..Len(s) |-> IF s[i] \in UriUnescaped THEN <<s[i]>> ELSE pctEncode(s[i])])

encodeURI(s) ==
  flatten([i \in 1..Len(s) |->
    IF s[i] \in UriUnescaped \cup UriReserved THEN <<s[i]>> ELSE pctEncode(s[i])])

\* s.replace(/[?#]/g, encodeURIComponent)
escapeQuestionAndHash(s) ==
  flatten([i \in 1..Len(s) |-> IF s[i] \in {"?", "#"} THEN encodeURIComponent(<<s[i]>>) ELSE <<s[i]>>])

\* The result of a conversion that can throw: ok is FALSE when it threw.
Thrown == [ok |-> FALSE, s |-> <<>>]

\* decodeURIComponent.  A '%' must be followed by two hex digits; an escape
\* of 80..FF is a byte of a UTF-8 sequence, and decoding throws URIError
\* unless the bytes form one (a sequence starts with a byte C2..F4, so a
\* string whose escapes all start with a digit below C throws here).
RECURSIVE decodeLoop(_, _, _)
decodeLoop(s, i, acc) ==
  IF i > Len(s) THEN [ok |-> TRUE, s |-> acc]
  ELSE IF s[i] # "%" THEN decodeLoop(s, i + 1, Append(acc, s[i]))
  ELSE IF i + 2 > Len(s) \/ ~isHex(s[i + 1]) \/ ~isHex(s[i + 2]) THEN Thrown
  ELSE LET code == 16 * hexVal(s[i + 1]) + hexVal(s[i + 2])
       IN IF code >= 128 THEN Thrown
          ELSE decodeLoop(s, i + 3, Append(acc, Ascii[code + 1]))

decodeURIComponent(s) == decodeLoop(s, 1, <<>>)

(***************************************************************************)
(* tools/url-tools (urt): encoding                                         *)
(***************************************************************************)
\* s.replace(/%25([0-9a-f]{2})/gi, '%$1')
RECURSIVE unDoubleEncodeFrom(_, _)
unDoubleEncodeFrom(s, i) ==
  IF i > Len(s) THEN <<>>
  ELSE IF /\ i + 4 <= Len(s)
          /\ s[i] = "%" /\ s[i + 1] = "2" /\ s[i + 2] = "5"
          /\ isHex(s[i + 3]) /\ isHex(s[i + 4])
    THEN <<"%", s[i + 3], s[i + 4]>> \o unDoubleEncodeFrom(s, i + 5)
    ELSE <<s[i]>> \o unDoubleEncodeFrom(s, i + 1)

unDoubleEncode(s) == unDoubleEncodeFrom(s, 1)

encodeComponent(s) == unDoubleEncode(encodeURIComponent(s))

encodePathname(s) == unDoubleEncode(escapeQuestionAndHash(encodeURI(s)))

(***************************************************************************)
(* Queries.  A query is [present, ent]: present is FALSE for undefined,    *)
(* and ent lists the object's own properties in the order Object.entries   *)
(* gives them, each [k, arr, vs]: the key, whether the value is an array,  *)
(* and the strings of the value (one string for a scalar).                 *)
(***************************************************************************)
NoQuery == [present |-> FALSE, ent |-> <<>>]

EmptyQuery == [present |-> TRUE, ent |-> <<>>]

Scalar(k, v) == [k |-> k, arr |-> FALSE, vs |-> <<v>>]

Arr(k, vs) == [k |-> k, arr |-> TRUE, vs |-> vs]

\* the position of key k among the entries, 0 when it is not a property
RECURSIVE keyIndexFrom(_, _, _)
keyIndexFrom(ent, k, i) ==
  IF i > Len(ent) THEN 0
  ELSE IF ent[i].k = k THEN i ELSE keyIndexFrom(ent, k, i + 1)

keyIndex(ent, k) == keyIndexFrom(ent, k, 1)

\* a < b for two decimal numerals without leading zeros
RECURSIVE numeralLess(_, _)
numeralLess(a, b) ==
  IF Len(a) # Len(b) THEN Len(a) < Len(b)
  ELSE IF Len(a) = 0 THEN FALSE
  ELSE IF a[1] # b[1] THEN Ord[a[1]] < Ord[b[1]]
  ELSE numeralLess(Tail(a), Tail(b))

\* 2^32 - 1
ArrayIndexLimit == <<"4", "2", "9", "4", "9", "6", "7", "2", "9", "5">>

\* An array index key: the canonical decimal form of an integer below
\* 2^32 - 1.  Object.entries lists these first, in ascending order, and the
\* other keys after them in insertion order.
isIndexKey(k) ==
  /\ Len(k) > 0
  /\ \A i \in 1..Len(k) : k[i] \in Digits
  /\ (Len(k) = 1 \/ k[1] # "0")
  /\ numeralLess(k, ArrayIndexLimit)

\* the number of entries that stay before a new key k
RECURSIVE insertPos(_, _, _)
insertPos(ent, k, i) ==
  IF i > Len(ent) THEN Len(ent)
  ELSE IF ~isIndexKey(k) THEN Len(ent)
  ELSE IF isIndexKey(ent[i].k) /\ numeralLess(ent[i].k, k)
    THEN insertPos(ent, k, i + 1) ELSE i - 1

\* result[key] = value
setProperty(ent, e) ==
  LET at == keyIndex(ent, e.k)
  IN IF at > 0 THEN [ent EXCEPT ![at] = e]
     ELSE LET n == insertPos(ent, e.k, 1)
          IN SubSeq(ent, 1, n) \o <<e>> \o SubSeq(ent, n + 1, Len(ent))

\* { ...a, ...b } on the entries of two objects
RECURSIVE spread(_, _)
spread(a, b) ==
  IF Len(b) = 0 THEN a ELSE spread(setProperty(a, b[1]), Tail(b))

\* deep equality of two queries: the same keys with the same values, in any order
deepEqual(q1, q2) ==
  /\ q1.present = q2.present
  /\ Len(q1.ent) = Len(q2.ent)
  /\ \A i \in 1..Len(q1.ent) :
       /\ keyIndex(q2.ent, q1.ent[i].k) > 0
       /\ q2.ent[keyIndex(q2.ent, q1.ent[i].k)] = q1.ent[i]

(***************************************************************************)
(* tools/url-tools (urt): parsing and building                             *)
(***************************************************************************)
\* pair.split('=', 2): the first two of the pieces between the '=' signs
splitLimit2(pair) == SubSeq(split(pair, "="), 1, IF Len(split(pair, "=")) < 2 THEN 1 ELSE 2)

\* parseQueryStep that overwrites on a repeated key
parseQueryStep_overwrites(ent, key, val) == setProperty(ent, Scalar(key, val))

\* one pair of parseQuery: if (result[key]) ... else ...; the test is on the
\* truthiness of the value, so a stored '' counts as no value
parseQueryStep(ent, key, val) ==
  LET at == keyIndex(ent, key)
  IN IF at > 0 /\ (ent[at].arr \/ ent[at].vs[1] # <<>>)
       THEN setProperty(ent, Arr(key, Append(ent[at].vs, val)))
       ELSE setProperty(ent, Scalar(key, val))

RECURSIVE parseQueryLoop(_, _, _)
parseQueryLoop(pairs, i, ent) ==
  IF i > Len(pairs) THEN [ok |-> TRUE, q |-> [present |-> TRUE, ent |-> ent]]
  ELSE IF Len(pairs[i]) = 0 THEN parseQueryLoop(pairs, i + 1, ent)
  ELSE LET kv == splitLimit2(pairs[i])
           key == decodeURIComponent(kv[1])
           val == decodeURIComponent(IF Len(kv) > 1 THEN kv[2] ELSE <<>>)
       IN IF ~key.ok \/ ~val.ok THEN [ok |-> FALSE, q |-> NoQuery]
          ELSE parseQueryLoop(pairs, i + 1, parseQueryStep(ent, key.s, val.s))

parseQuery(q) ==
  LET str == IF startsWith(q, "?") THEN sliceFrom(q, 1) ELSE q
  IN parseQueryLoop(split(str, "&"), 1, <<>>)

\* A fragment is [present, v]: present is FALSE for undefined.
NoFragment == [present |-> FALSE, v |-> <<>>]

Fragment(v) == [present |-> TRUE, v |-> v]

\* Parts are [ok, pathname, query, fragment]; ok is FALSE when parsing threw.
PartsError == [ok |-> FALSE, pathname |-> <<>>, query |-> NoQuery, fragment |-> NoFragment]

\* parsePath that tests the query string for truthiness, so that a bare ? gives no query
parsePath_emptyQueryIsAbsent(s) ==
  LET slashIndex == lastIndexOf(s, "/")
      remainder0 == sliceFrom(s, slashIndex + 1)
      hashIndex == indexOf(remainder0, "#")
      remainder1 == IF hashIndex = -1 THEN remainder0 ELSE sliceTo(remainder0, hashIndex)
      queryIndex == indexOf(remainder1, "?")
      remainder2 == IF queryIndex = -1 THEN remainder1 ELSE sliceTo(remainder1, queryIndex)
      parsed == IF queryIndex = -1 \/ queryIndex = Len(remainder1) - 1
                  THEN [ok |-> TRUE, q |-> NoQuery]
                  ELSE parseQuery(sliceFrom(remainder1, queryIndex + 1))
  IN IF ~parsed.ok THEN PartsError
     ELSE [ok |-> TRUE,
           pathname |-> urt_normalizePathname(sliceTo(s, slashIndex + 1) \o remainder2),
           query |-> parsed.q,
           fragment |-> IF hashIndex = -1 THEN NoFragment
                        ELSE Fragment(sliceFrom(remainder0, hashIndex + 1))]

parsePath(s) ==
  LET slashIndex == lastIndexOf(s, "/")
      remainder0 == sliceFrom(s, slashIndex + 1)
      hashIndex == indexOf(remainder0, "#")
      remainder1 == IF hashIndex = -1 THEN remainder0 ELSE sliceTo(remainder0, hashIndex)
      queryIndex == indexOf(remainder1, "?")
      remainder2 == IF queryIndex = -1 THEN remainder1 ELSE sliceTo(remainder1, queryIndex)
      parsed == IF queryIndex = -1 THEN [ok |-> TRUE, q |-> NoQuery]
                ELSE parseQuery(sliceFrom(remainder1, queryIndex + 1))
  IN IF ~parsed.ok THEN PartsError
     ELSE [ok |-> TRUE,
           pathname |-> urt_normalizePathname(sliceTo(s, slashIndex + 1) \o remainder2),
           query |-> parsed.q,
           fragment |-> IF hashIndex = -1 THEN NoFragment
                        ELSE Fragment(sliceFrom(remainder0, hashIndex + 1))]

\* Object.entries(q).flatMap(...): one [k, v] pair per string of each value
queryPairs(ent) ==
  flatten([i \in 1..Len(ent) |->
    [j \in 1..Len(ent[i].vs) |-> <<ent[i].k, ent[i].vs[j]>>]])

queryToString(q) ==
  IF ~q.present THEN <<>>
  ELSE LET pairs == queryPairs(q.ent)
       IN <<"?">> \o joinWith([i \in 1..Len(pairs) |->
                 encodeComponent(pairs[i][1]) \o <<"=">> \o encodeComponent(pairs[i][2])], "&")

fragmentToString(f) ==
  IF ~f.present THEN <<>> ELSE <<"#">> \o encodeComponent(f.v)

partsToString(params) ==
  encodePathname(params.pathname) \o queryToString(params.query) \o fragmentToString(params.fragment)

\* the append semantics of mergeQueries: [].concat(result[k], v)
mergeQueriesStep(ent, e) ==
  LET at == keyIndex(ent, e.k)
  IN IF at > 0 THEN setProperty(ent, Arr(e.k, ent[at].vs \o e.vs))
     ELSE setProperty(ent, e)

RECURSIVE mergeQueries(_, _)
mergeQueries(base, override) ==
  IF Len(override) = 0 THEN base
  ELSE mergeQueries(mergeQueriesStep(base, override[1]), Tail(override))

stripLeadingHash(s) == IF startsWith(s, "#") THEN sliceFrom(s, 1) ELSE s

(***************************************************************************)
(* tools/url-tools (urt): origins                                          *)
(***************************************************************************)
hierarchicalSchemes ==
  {<<"h","t","t","p",":">>, <<"h","t","t","p","s",":">>, <<"f","t","p",":">>,
   <<"f","t","p","s",":">>, <<"w","s",":">>, <<"w","s","s",":">>, <<"f","i","l","e",":">>}

SchemeChars == Letters \cup Digits \cup {"+", "-", "."}

\* the text matched by [a-zA-Z][a-zA-Z0-9+\-.]*: at the start of s, '' if none
schemeOf(s) ==
  LET colon == indexOf(s, ":")
  IN IF /\ colon >= 1
        /\ s[1] \in Letters
        /\ \A i \in 2..colon : s[i] \in SchemeChars
       THEN sliceTo(s, colon + 1) ELSE <<>>

\* the length of the longest prefix of s without '/', '?' or '#'
RECURSIVE authorityLen(_, _)
authorityLen(s, i) ==
  IF i > Len(s) \/ s[i] \in {"/", "?", "#"} THEN i - 1 ELSE authorityLen(s, i + 1)

\* new URL(`${scheme || 'http:'}//${authority}/`) does not throw.  The
\* platform's parser is modelled for the authorities of knownAuthority: a
\* host of letters parses under every scheme, and an empty host parses
\* except under the schemes of emptyHostRejected ('' stands for no scheme).
knownAuthority(authority) == \A i \in 1..Len(authority) : authority[i] \in Letters

emptyHostRejected ==
  {<<>>, <<"h","t","t","p",":">>, <<"h","t","t","p","s",":">>, <<"f","t","p",":">>,
   <<"w","s",":">>, <<"w","s","s",":">>}

isValidOrigin(scheme, authority) ==
  /\ knownAuthority(authority)
  /\ Len(authority) > 0 \/ toLowerCase(scheme) \notin emptyHostRejected

\* The result is [kind, origin, path, authority]; origin and path are '' for
\* the kinds that carry none.
analyzeUrl(s) ==
  LET scheme0 == schemeOf(s)
      afterScheme == sliceFrom(s, Len(scheme0))
      withScheme == Len(scheme0) > 0 /\ Len(afterScheme) >= 2
                      /\ afterScheme[1] = "/" /\ afterScheme[2] = "/"
      bare == Len(s) >= 2 /\ s[1] = "/" /\ s[2] = "/"
      scheme == IF withScheme THEN scheme0 ELSE <<>>
      rest == sliceFrom(s, Len(scheme) + 2)
      n == authorityLen(rest, 1)
      authority == sliceTo(rest, n)
      origin == toLowerCase(scheme \o <<"/", "/">> \o authority)
  IN IF ~withScheme /\ ~bare
       THEN [kind |-> IF Len(scheme0) > 0 THEN "opaque" ELSE "invalid",
             origin |-> <<>>, path |-> <<>>, authority |-> <<>>]
     ELSE IF ~isValidOrigin(scheme, authority)
       THEN [kind |-> "invalid-origin", origin |-> origin, path |-> <<>>, authority |-> authority]
     ELSE IF Len(scheme) > 0 /\ toLowerCase(scheme) \notin hierarchicalSchemes
       THEN [kind |-> "opaque", origin |-> <<>>, path |-> <<>>, authority |-> authority]
     ELSE [kind |-> "hierarchical", origin |-> origin, path |-> sliceFrom(rest, n),
           authority |-> authority]

\* Full parts are parts with an origin: [ok, hasOrigin, origin, pathname, query, fragment].
withOrigin(parts, hasOrigin, origin) ==
  [ok |-> parts.ok, hasOrigin |-> hasOrigin, origin |-> origin,
   pathname |-> parts.pathname, query |-> parts.query, fragment |-> parts.fragment]

FullPartsError == withOrigin(PartsError, FALSE, <<>>)

parseFullUrl(s) ==
  LET analyzeResult == analyzeUrl(s)
  IN IF analyzeResult.kind = "hierarchical"
       THEN withOrigin(parsePath(analyzeResult.path), TRUE, analyzeResult.origin)
       ELSE FullPartsError

(***************************************************************************)
(* tools/url-tools (urt): join and resolve                                 *)
(***************************************************************************)
\* the rooted branch of joinOrResolve: the argument's parts replace the
\* accumulated ones; { ...relQuery } is an object also for an undefined relQuery
urt_resetStep(st, rel) ==
  [st EXCEPT !.pathname = rel.pathname,
             !.query = [present |-> TRUE, ent |-> rel.query.ent],
             !.fragment = rel.fragment]

\* the appending branch of joinOrResolve that appends to a repeated key
urt_appendStep_concats(st, rel) ==
  [st EXCEPT !.pathname = st.pathname \o <<"/">> \o rel.pathname,
             !.query = IF rel.query.present
                         THEN [present |-> TRUE, ent |-> mergeQueries(st.query.ent, rel.query.ent)]
                         ELSE st.query,
             !.fragment = IF rel.fragment.present /\ rel.fragment.v # <<>>
                            THEN rel.fragment ELSE st.fragment]

\* the appending branch of joinOrResolve
urt_appendStep(st, rel) ==
  [st EXCEPT !.pathname = st.pathname \o <<"/">> \o rel.pathname,
             !.query = IF rel.query.present
                         THEN [present |-> TRUE, ent |-> spread(st.query.ent, rel.query.ent)]
                         ELSE st.query,
             !.fragment = IF rel.fragment.present /\ rel.fragment.v # <<>>
                            THEN rel.fragment ELSE st.fragment]

\* one pass of the loop of joinOrResolve after parsePath: the rooted branch
\* under resolve, else the appending branch
urt_branch(st, rel, isResolve) ==
  IF ~rel.ok THEN FullPartsError
  ELSE IF isResolve /\ startsWith(rel.pathname, "/") THEN urt_resetStep(st, rel)
  ELSE urt_appendStep(st, rel)

\* one pass of the loop of joinOrResolve on a non-empty str, analyzed being
\* analyzeUrl(str); a throw gives FullPartsError
urt_pass(st, str, analyzed, isResolve, detectOrigin) ==
  IF ~st.ok THEN st
  ELSE IF isResolve /\ detectOrigin /\ analyzed.kind \in {"opaque", "invalid-origin"}
    THEN FullPartsError
  ELSE IF isResolve /\ detectOrigin /\ analyzed.kind = "hierarchical"
    THEN urt_branch([st EXCEPT !.origin = analyzed.origin], parsePath(analyzed.path), isResolve)
  ELSE urt_branch(st, parsePath(str), isResolve)

RECURSIVE urt_loop(_, _, _, _, _)
urt_loop(segments, i, st, isResolve, detectOrigin) ==
  IF i > Len(segments) THEN st
  ELSE urt_loop(segments, i + 1,
                IF Len(segments[i]) = 0 THEN st
                ELSE urt_pass(st, segments[i], analyzeUrl(segments[i]), isResolve, detectOrigin),
                isResolve, detectOrigin)

\* the parts joinOrResolve returns: the accumulated ones, the pathname normalized
urt_joinOrResolveResult(st) ==
  IF ~st.ok THEN st ELSE [st EXCEPT !.pathname = urt_normalizePathname(st.pathname)]

urt_joinOrResolve(parts, segments, mode) ==
  urt_joinOrResolveResult(
    urt_loop(segments, 1, parts, mode = "resolve", mode = "resolve" /\ parts.hasOrigin))

urt_join(parts, segments) == urt_joinOrResolve(parts, segments, "join")

urt_resolve(parts, segments) == urt_joinOrResolve(parts, segments, "resolve")

(***************************************************************************)
(* URL paths: UrlBase, RelativePathUrl, RootPathUrl, FullPathUrl.          *)
(* An instance is [kind, origin, pathname, query, fragment], with origin   *)
(* '' for the kinds without one; a constructor that throws gives UrlError. *)
(***************************************************************************)
UrlKinds == {"relative", "root", "full"}

UrlError ==
  [kind |-> "error", origin |-> <<>>, pathname |-> <<>>, query |-> NoQuery, fragment |-> NoFragment]

UrlBase_new(kind, origin, parts) ==
  [kind |-> kind, origin |-> origin, pathname |-> parts.pathname,
   query |-> parts.query, fragment |-> parts.fragment]

isRelativePathUrlString(s) == ~startsWith(s, "/")

isRootPathUrlString(s) == startsWith(s, "/")

\* the constructors, on the parts their argument stands for
RelativePathUrl_new(parts) ==
  IF ~parts.ok \/ ~isRelativePathUrlString(parts.pathname) THEN UrlError
  ELSE UrlBase_new("relative", <<>>, parts)

RootPathUrl_new(parts) ==
  IF ~parts.ok \/ ~isRootPathUrlString(parts.pathname) THEN UrlError
  ELSE UrlBase_new("root", <<>>, parts)

FullPathUrl_new(parts) ==
  IF ~parts.ok THEN UrlError
  ELSE LET pathname == IF parts.pathname = <<".">> THEN <<"/">> ELSE parts.pathname
       IN IF ~pth_isAbsolute(pathname) THEN UrlError
          ELSE UrlBase_new("full", parts.origin, [parts EXCEPT !.pathname = pathname])

\* new ctor(parts), with ctor the receiver's class
Url_new(kind, parts) ==
  IF kind = "relative" THEN RelativePathUrl_new(parts)
  ELSE IF kind = "root" THEN RootPathUrl_new(parts)
  ELSE FullPathUrl_new(parts)

\* the constructors, on a string
Url_fromString(kind, s) ==
  IF kind = "full" THEN FullPathUrl_new(parseFullUrl(s))
  ELSE Url_new(kind, withOrigin(parsePath(s), FALSE, <<>>))

UrlBase_parts(this) ==
  [ok |-> TRUE, hasOrigin |-> this.kind = "full", origin |-> this.origin,
   pathname |-> this.pathname, query |-> this.query, fragment |-> this.fragment]

UrlBase_isAbsolute(this) == pth_isAbsolute(this.pathname)

\* The overrides given to nextParts are [hasPathname, pathname, query,
\* removeQuery, fragment, removeFragment]; a query or a fragment that is not
\* present is undefined, and ?? then takes the receiver's.
Overrides(hasPathname, pathname, query, fragment) ==
  [hasPathname |-> hasPathname, pathname |-> pathname, query |-> query, removeQuery |-> FALSE,
   fragment |-> fragment, removeFragment |-> FALSE]

UrlBase_nextParts(this, overrides) ==
  [ok |-> TRUE,
   pathname |-> IF overrides.hasPathname
                  THEN pth_conformAbsolute(overrides.pathname, UrlBase_isAbsolute(this))
                  ELSE this.pathname,
   query |-> IF overrides.removeQuery THEN NoQuery
             ELSE IF overrides.query.present THEN overrides.query ELSE this.query,
   fragment |-> IF overrides.removeFragment THEN NoFragment
                ELSE IF overrides.fragment.present THEN overrides.fragment ELSE this.fragment]

\* cloneWithParts, with FullPathUrl's override: origin ?? this.#origin
UrlBase_cloneWithParts(this, overrides, hasOrigin, origin) ==
  Url_new(this.kind,
          withOrigin(UrlBase_nextParts(this, overrides), this.kind = "full",
                     IF this.kind = "full" /\ hasOrigin THEN origin ELSE this.origin))

\* cloneWithParts(parts) on the parts join and resolve return
UrlBase_cloneWithJoined(this, parts) ==
  IF ~parts.ok THEN UrlError
  ELSE UrlBase_cloneWithParts(this, Overrides(TRUE, parts.pathname, parts.query, parts.fragment),
                              parts.hasOrigin, parts.origin)

UrlBase_join(this, segments) ==
  UrlBase_cloneWithJoined(this, urt_join(UrlBase_parts(this), filterBoolean(segments)))

UrlBase_resolve(this, args_) ==
  UrlBase_cloneWithJoined(this, urt_resolve(UrlBase_parts(this), filterBoolean(args_)))

UrlBase_replaceQuery(this, query) ==
  UrlBase_cloneWithParts(this, Overrides(FALSE, <<>>, query, NoFragment), FALSE, <<>>)

\* mergeQuery with the append semantics of mergeQueries
UrlBase_mergeQuery_appends(this, query) ==
  UrlBase_cloneWithParts(this,
    Overrides(FALSE, <<>>, [present |-> TRUE, ent |-> mergeQueries(this.query.ent, query.ent)],
              NoFragment), FALSE, <<>>)

UrlBase_mergeQuery(this, query) ==
  UrlBase_cloneWithParts(this,
    Overrides(FALSE, <<>>, [present |-> TRUE, ent |-> spread(this.query.ent, query.ent)],
              NoFragment), FALSE, <<>>)

UrlBase_replaceFragment(this, fragment) ==
  UrlBase_cloneWithParts(this, Overrides(FALSE, <<>>, NoQuery, Fragment(stripLeadingHash(fragment))),
                         FALSE, <<>>)

UrlBase_toString(this) == partsToString(this)

\* toString of a FullPathUrl: the origin, then the path, query and fragment
FullPathUrl_toString(this) == this.origin \o partsToString(this)

Url_toString(this) ==
  IF this.kind = "full" THEN FullPathUrl_toString(this) ELSE UrlBase_toString(this)

(***************************************************************************)
(* URL path instances, their string form and its re-parsing.               *)
(*                                                                         *)
(* An instance is constructed from a string or from parts; args records    *)
(* which, as [form, s] or [form, parts].  The letter a and the digit 2     *)
(* serve as text and as hex digits: %22 is an escaped quotation mark, %2a  *)
(* an escaped asterisk, %a2 and %aa bytes that are not UTF-8.              *)
(***************************************************************************)
MaxUrlLen == 4
MaxPartLen == 3

UrlChars == {"/", "a", "?", "#", "=", "&", "%", "2"}

FullOrigin == <<"h", "t", "t", "p", ":", "/", "/", "a">>

\* the string handed to the constructor of the kind
urlText(kind, s) == IF kind = "full" THEN FullOrigin \o s ELSE s

\* the parts of the instances constructed from parts
PartPathChars == {"/", "a", "%", "2", " "}
PartValueChars == {"a", "%", "2", " "}
PartFragmentChars == {"a", "%", "2", "#", "/"}
PartKeys == {<<"a">>, <<"2">>}
ShortValues == {<<>>, <<"a">>, <<"%">>}

\* the object literal with the given properties
Query(entries) == [present |-> TRUE, ent |-> spread(<<>>, entries)]

PartQueries ==
  {NoQuery, EmptyQuery}
    \cup {Query(<<Scalar(k, v)>>) : k \in PartKeys, v \in Strings(PartValueChars, MaxPartLen)}
    \cup {Query(<<Arr(k, vs)>>) : k \in PartKeys, vs \in UNION {[1..n -> ShortValues] : n \in 0..2}}
    \cup {Query(<<Scalar(<<"a">>, v), Scalar(<<"2">>, w)>>) : v \in ShortValues, w \in ShortValues}

PartFragments == {NoFragment} \cup {Fragment(v) : v \in Strings(PartFragmentChars, MaxPartLen)}

PlainPathname(kind) == IF kind = "relative" THEN <<"a">> ELSE <<"/", "a">>
PlainQueries == {NoQuery, Query(<<Scalar(<<"a">>, <<"a">>)>>)}
PlainFragments == {NoFragment, Fragment(<<"a">>)}

\* parts with one rich facet and the two others plain
UrlParts(kind) ==
  [ok : {TRUE}, pathname : {PlainPathname(kind)},
   query : PartQueries, fragment : PlainFragments]
    \cup [ok : {TRUE}, pathname : {PlainPathname(kind)},
          query : PlainQueries, fragment : PartFragments]
    \cup [ok : {TRUE}, pathname : Strings(PartPathChars, MaxPartLen),
          query : PlainQueries, fragment : PlainFragments]

InitUrl ==
  /\ \E kind \in UrlKinds :
       \/ \E parts \in UrlParts(kind) :
            /\ cur = Url_new(kind, withOrigin(parts, kind = "full", urlText(kind, <<>>)))
            /\ args = [form |-> "parts", parts |-> parts]
       \/ \E s \in Strings(UrlChars, MaxUrlLen) :
            /\ kind = "full" => knownAuthority(analyzeUrl(urlText(kind, s)).authority)
            /\ cur = Url_fromString(kind, urlText(kind, s))
            /\ args = [form |-> "string", s |-> urlText(kind, s)]
  /\ cur # UrlError
  /\ op = "new"
  /\ recv = UrlError
  /\ out = NoOut

Stringify ==
  /\ op = "new"
  /\ out' = Url_toString(cur)
  /\ op' = "toString"
  /\ UNCHANGED <<cur, recv, args>>

\* new ctor(String(u)), with ctor the class of u
Reparse ==
  /\ op = "toString"
  /\ cur' = Url_fromString(cur.kind, out)
  /\ recv' = cur
  /\ op' = "reparse"
  /\ UNCHANGED <<args, out>>

NextUrl == Stringify \/ Reparse

SpecUrl == InitUrl /\ [][NextUrl]_vars

(***************************************************************************)
(* The operations of URL path instances: mergeQuery, replaceQuery, join    *)
(* and resolve, each on a freshly constructed receiver.  The receivers are *)
(* constructed from parts; the arguments of join and resolve are strings,  *)
(* written as one text with "," between them.                              *)
(***************************************************************************)
MaxUrlArgLen == 4

ReceiverQueries ==
  {NoQuery, EmptyQuery,
   Query(<<Scalar(<<"a">>, <<"a">>)>>),
   Query(<<Scalar(<<"a", "a">>, <<"a">>), Arr(<<"a">>, << <<"a">>, <<"a">> >>)>>)}

ReceiverFragments == {NoFragment, Fragment(<<>>), Fragment(<<"a">>)}

ReceiverParts(kind) ==
  [ok : {TRUE}, pathname : {PlainPathname(kind)},
   query : ReceiverQueries, fragment : ReceiverFragments]

\* the query objects handed to mergeQuery and replaceQuery
ArgumentValues == {<<>>, <<"a">>}

ArgumentQueries ==
  {EmptyQuery}
    \cup {Query(<<Scalar(k, v)>>) : k \in {<<"a">>, <<"2">>}, v \in ArgumentValues}
    \cup {Query(<<Arr(<<"a">>, vs)>>) : vs \in UNION {[1..n -> ArgumentValues] : n \in 0..2}}
    \cup {Query(<<Scalar(<<"a", "a">>, v), Scalar(<<"a">>, w)>>) :
            v \in ArgumentValues, w \in ArgumentValues}

UrlArgChars == {"/", "a", "?", "#", "="}

UrlArgs == {split(t, ",") : t \in Strings(UrlArgChars \cup {","}, MaxUrlArgLen)}

InitUrlOps ==
  /\ \E kind \in UrlKinds : \E parts \in ReceiverParts(kind) :
       /\ cur = Url_new(kind, withOrigin(parts, kind = "full", urlText(kind, <<>>)))
       /\ args = [form |-> "parts", parts |-> parts]
  /\ cur # UrlError
  /\ op = "new"
  /\ recv = UrlError
  /\ out = NoOut

MergeQuery ==
  /\ op = "new"
  /\ \E q \in ArgumentQueries :
       /\ cur' = UrlBase_mergeQuery(cur, q)
       /\ args' = [form |-> "query", q |-> q]
  /\ op' = "mergeQuery"
  /\ recv' = cur
  /\ UNCHANGED out

ReplaceQuery ==
  /\ op = "new"
  /\ \E q \in ArgumentQueries :
       /\ cur' = UrlBase_replaceQuery(cur, q)
       /\ args' = [form |-> "query", q |-> q]
  /\ op' = "replaceQuery"
  /\ recv' = cur
  /\ UNCHANGED out

UrlJoin ==
  /\ op = "new"
  /\ \E a \in UrlArgs :
       /\ cur' = UrlBase_join(cur, a)
       /\ args' = [form |-> "segments", a |-> a]
  /\ op' = "join"
  /\ recv' = cur
  /\ UNCHANGED out

\* resolve exists on RootPathUrl and FullPathUrl; on a FullPathUrl every
\* argument is analysed for an origin, with the authorities of knownAuthority
UrlResolve ==
  /\ op = "new"
  /\ cur.kind \in {"root", "full"}
  /\ \E a \in UrlArgs :
       /\ cur.kind = "full" =>
            \A i \in 1..Len(a) : knownAuthority(analyzeUrl(a[i]).authority)
       /\ cur' = UrlBase_resolve(cur, a)
       /\ args' = [form |-> "segments", a |-> a]
  /\ op' = "resolve"
  /\ recv' = cur
  /\ UNCHANGED out

NextUrlOps == MergeQuery \/ ReplaceQuery \/ UrlJoin \/ UrlResolve

SpecUrlOps == InitUrlOps /\ [][NextUrlOps]_vars

(***************************************************************************)
(* tools/filename-tools (fnt) and Filename.                                *)
(* A Filename is [ok, v]; a constructor that throws gives FilenameError.   *)
(***************************************************************************)
\* base.endsWith(ext) for a string ext
endsWithString(s, t) ==
  Len(t) <= Len(s) /\ SubSeq(s, Len(s) - Len(t) + 1, Len(s)) = t

\* extname that takes a leading dot for the start of an extension
fnt_extname_ofLeadingDot(filename) ==
  IF lastIndexOf(filename, ".") >= 0
       /\ lastIndexOf(filename, ".") > lastIndexOf(filename, PATH_SEPARATOR)
    THEN sliceFrom(filename, lastIndexOf(filename, "."))
    ELSE <<>>

fnt_extname(filename) ==
  IF lastIndexOf(filename, ".") > 0
       /\ lastIndexOf(filename, ".") > lastIndexOf(filename, PATH_SEPARATOR)
    THEN sliceFrom(filename, lastIndexOf(filename, "."))
    ELSE <<>>

\* basename(filename) without ext
fnt_basename(filename) == sliceFrom(filename, lastIndexOf(filename, PATH_SEPARATOR) + 1)

\* basename(filename, ext)
fnt_basenameWithout(filename, ext) ==
  IF Len(ext) > 0 /\ endsWithString(fnt_basename(filename), ext)
    THEN sliceTo(fnt_basename(filename), Len(fnt_basename(filename)) - Len(ext))
    ELSE fnt_basename(filename)

\* newExt.startsWith('.') ? newExt : '.' + newExt
fnt_ensureLeadingDot(newExt) == IF startsWith(newExt, ".") THEN newExt ELSE <<".">> \o newExt

FilenameError == [ok |-> FALSE, v |-> <<>>]

Filename_isFilenameString(filename) == filename = fnt_basename(filename)

Filename_new(filename) ==
  IF Filename_isFilenameString(filename) THEN [ok |-> TRUE, v |-> filename] ELSE FilenameError

Filename_extension(this) == fnt_extname(this.v)

Filename_stem(this) == fnt_basenameWithout(this.v, Filename_extension(this))

Filename_replaceStem(this, newStem) == Filename_new(newStem \o Filename_extension(this))

Filename_replaceExtension(this, newExt) ==
  Filename_new(Filename_stem(this) \o fnt_ensureLeadingDot(newExt))

(***************************************************************************)
(* UrlBase: directory flag, segments, filename and the operations on them. *)
(* An optional string is [present, v].                                     *)
(***************************************************************************)
Undefined == [present |-> FALSE, v |-> <<>>]

Defined(v) == [present |-> TRUE, v |-> v]

\* the error thrown by #requireFilename: "Can't ..., directory path has no filename: ..."
DirectoryError ==
  [kind |-> "error: directory path has no filename", origin |-> <<>>, pathname |-> <<>>,
   query |-> NoQuery, fragment |-> NoFragment]

UrlBase_isDirectory(this) ==
  endsWith(this.pathname, "/") \/ this.pathname = <<"/">> \/ this.pathname = <<".">>

UrlBase_segments(this) == filterBoolean(split(this.pathname, "/"))

\* [...this.segments].pop()
UrlBase_leaf(this) ==
  IF Len(UrlBase_segments(this)) = 0 THEN Undefined
  ELSE Defined(UrlBase_segments(this)[Len(UrlBase_segments(this))])

\* #filenameStr without the directory test
UrlBase_filenameStr_ofAnyPath(this) == Defined(fnt_basename(this.pathname))

UrlBase_filenameStr(this) ==
  IF UrlBase_isDirectory(this) THEN Undefined ELSE Defined(fnt_basename(this.pathname))

\* this.#filenameStr ? new Filename(this.#filenameStr) : undefined, as the
\* filename's string; '' is falsy
UrlBase_filename(this) ==
  IF UrlBase_filenameStr(this).v # <<>> /\ Filename_new(UrlBase_filenameStr(this).v).ok
    THEN UrlBase_filenameStr(this) ELSE Undefined

UrlBase_stem(this) ==
  IF UrlBase_filename(this).present
    THEN Defined(Filename_stem(Filename_new(UrlBase_filename(this).v))) ELSE Undefined

UrlBase_extension(this) ==
  IF UrlBase_filename(this).present
    THEN Defined(Filename_extension(Filename_new(UrlBase_filename(this).v))) ELSE Undefined

UrlBase_cloneWithPathname(this, pathname) ==
  UrlBase_cloneWithParts(this, Overrides(TRUE, pathname, NoQuery, NoFragment), FALSE, <<>>)

UrlBase_parent(this) == UrlBase_cloneWithPathname(this, pth_dirname(this.pathname))

\* this.parent.join(filename); a constructor that throws ends the call
UrlBase_joinParent(parent, filename) ==
  IF parent.kind \notin UrlKinds THEN UrlError ELSE UrlBase_join(parent, <<filename>>)

UrlBase_cloneWithFilename(this, filename) == UrlBase_joinParent(UrlBase_parent(this), filename)

\* cloneWithFilename on a Filename that a Filename operation returned
UrlBase_cloneWithFilenameOf(this, filename) ==
  IF ~filename.ok THEN UrlError ELSE UrlBase_cloneWithFilename(this, filename.v)

UrlBase_replaceExtension(this, newExtension) ==
  IF ~UrlBase_filename(this).present THEN DirectoryError
  ELSE UrlBase_cloneWithFilenameOf(this,
         Filename_replaceExtension(Filename_new(UrlBase_filename(this).v), newExtension))

UrlBase_replaceFilename(this, newFilename) ==
  IF ~UrlBase_filename(this).present THEN DirectoryError
  ELSE UrlBase_cloneWithFilename(this, newFilename)

UrlBase_replaceStem(this, newStem) ==
  IF ~UrlBase_filename(this).present THEN DirectoryError
  ELSE UrlBase_cloneWithFilenameOf(this,
         Filename_replaceStem(Filename_new(UrlBase_filename(this).v), newStem))

\* transformFilename(fn), with result the string of what fn returns
UrlBase_transformFilename(this, result) ==
  IF ~UrlBase_filename(this).present THEN DirectoryError
  ELSE UrlBase_cloneWithFilename(this, result)

\* the pathname of urt.join(parts, [String(newParent), this.#leaf, this.isDirectory ? '/' : ''])
UrlBase_replaceParentJoined(this, newParent) ==
  urt_join([UrlBase_parts(this) EXCEPT !.pathname = <<>>],
           filterBoolean(<<newParent, UrlBase_leaf(this).v,
                           IF UrlBase_isDirectory(this) THEN <<"/">> ELSE <<>> >>))

UrlBase_cloneWithPathnameOf(this, parts) ==
  IF ~parts.ok THEN UrlError ELSE UrlBase_cloneWithPathname(this, parts.pathname)

UrlBase_replaceParent(this, newParent) ==
  UrlBase_cloneWithPathnameOf(this, UrlBase_replaceParentJoined(this, newParent))

UrlBase_replacePathname(this, path) == UrlBase_cloneWithPathname(this, path)

UrlBase_removeQuery(this) ==
  UrlBase_cloneWithParts(this,
    [Overrides(FALSE, <<>>, NoQuery, NoFragment) EXCEPT !.removeQuery = TRUE], FALSE, <<>>)

UrlBase_removeFragment(this) ==
  UrlBase_cloneWithParts(this,
    [Overrides(FALSE, <<>>, NoQuery, NoFragment) EXCEPT !.removeFragment = TRUE], FALSE, <<>>)

\* this.#pathname.replace(/\/+$/, '')
RECURSIVE stripAllTrailingSlashes(_)
stripAllTrailingSlashes(p) ==
  IF endsWith(p, "/") THEN stripAllTrailingSlashes(sliceTo(p, Len(p) - 1)) ELSE p

UrlBase_unDirectory(this) ==
  IF UrlBase_isDirectory(this)
    THEN UrlBase_cloneWithPathname(this, stripAllTrailingSlashes(this.pathname))
    ELSE this

(***************************************************************************)
(* The filename and parent operations of URL path instances, each on a     *)
(* freshly constructed receiver.  The receivers are constructed from a     *)
(* string (a pathname, alone or followed by a query and a fragment) or     *)
(* from parts with the pathname as given.                                  *)
(***************************************************************************)
MaxFileLen == 4
MaxFileArgLen == 2

FileChars == {"/", "a", "."}

\* the decorations that follow the pathname in the receivers' strings
FileSuffixes == {<<>>, <<"?", "a", "=", "a", "#", "a">>}

\* the strings handed to the operations
FileArgs == Strings(FileChars, MaxFileArgLen) \cup {<<"a", "?", "a">>, <<"a", "#">>}

\* the pathnames of the instances handed to replaceParent
ParentPathnames == {<<"/">>, <<"/", "a">>, <<"a">>, <<"a", "/">>, <<".">>, <<".", ".">>}

InitUrlFile ==
  /\ \E kind \in UrlKinds :
       \/ \E p \in Strings(FileChars, MaxFileLen) : \E suffix \in FileSuffixes :
            /\ cur = Url_fromString(kind, urlText(kind, p \o suffix))
            /\ args = [form |-> "string", s |-> urlText(kind, p \o suffix)]
       \/ \E p \in Strings(FileChars, MaxFileLen - 1) :
            /\ cur = Url_new(kind, withOrigin([ok |-> TRUE, pathname |-> p, query |-> NoQuery,
                                               fragment |-> NoFragment],
                                              kind = "full", urlText(kind, <<>>)))
            /\ args = [form |-> "parts", pathname |-> p]
  /\ cur.kind \in UrlKinds
  /\ op = "new"
  /\ recv = UrlError
  /\ out = NoOut

ReplaceFilename ==
  /\ op = "new"
  /\ \E a \in FileArgs :
       /\ cur' = UrlBase_replaceFilename(cur, a)
       /\ args' = [form |-> "name", a |-> a]
  /\ op' = "replaceFilename"
  /\ recv' = cur
  /\ UNCHANGED out

ReplaceStem ==
  /\ op = "new"
  /\ \E a \in FileArgs :
       /\ cur' = UrlBase_replaceStem(cur, a)
       /\ args' = [form |-> "name", a |-> a]
  /\ op' = "replaceStem"
  /\ recv' = cur
  /\ UNCHANGED out

ReplaceExtension ==
  /\ op = "new"
  /\ \E a \in FileArgs :
       /\ cur' = UrlBase_replaceExtension(cur, a)
       /\ args' = [form |-> "name", a |-> a]
  /\ op' = "replaceExtension"
  /\ recv' = cur
  /\ UNCHANGED out

\* transformFilename(fn) with fn returning a
TransformFilename ==
  /\ op = "new"
  /\ \E a \in FileArgs :
       /\ cur' = UrlBase_transformFilename(cur, a)
       /\ args' = [form |-> "name", a |-> a]
  /\ op' = "transformFilename"
  /\ recv' = cur
  /\ UNCHANGED out

Parent ==
  /\ op = "new"
  /\ cur' = UrlBase_parent(cur)
  /\ op' = "parent"
  /\ recv' = cur
  /\ args' = [form |-> "none"]
  /\ UNCHANGED out

\* replaceParent on a string, or on an instance of the receiver's kind
ReplaceParent ==
  /\ op = "new"
  /\ \/ \E a \in FileArgs :
          /\ cur' = UrlBase_replaceParent(cur, a)
          /\ args' = [form |-> "string", a |-> a]
     \/ \E p \in ParentPathnames : \E suffix \in FileSuffixes :
          /\ Url_fromString(cur.kind, urlText(cur.kind, p \o suffix)).kind \in UrlKinds
          /\ cur' = UrlBase_replaceParent(cur,
                      Url_toString(Url_fromString(cur.kind, urlText(cur.kind, p \o suffix))))
          /\ args' = [form |-> "instance",
                      a |-> Url_fromString(cur.kind, urlText(cur.kind, p \o suffix))]
  /\ op' = "replaceParent"
  /\ recv' = cur
  /\ UNCHANGED out

ReplacePathname ==
  /\ op = "new"
  /\ \E a \in FileArgs :
       /\ cur' = UrlBase_replacePathname(cur, a)
       /\ args' = [form |-> "name", a |-> a]
  /\ op' = "replacePathname"
  /\ recv' = cur
  /\ UNCHANGED out

UnDirectory ==
  /\ op = "new"
  /\ cur' = UrlBase_unDirectory(cur)
  /\ op' = "unDirectory"
  /\ recv' = cur
  /\ args' = [form |-> "none"]
  /\ UNCHANGED out

NextUrlFile ==
  \/ ReplaceFilename \/ ReplaceStem \/ ReplaceExtension \/ TransformFilename
  \/ Parent \/ ReplaceParent \/ ReplacePathname \/ UnDirectory

SpecUrlFile == InitUrlFile /\ [][NextUrlFile]_vars

(***************************************************************************)
(* pathUrl and the errors of the URL constructors.  An outcome is          *)
(* [instance, thrown]: the instance made, or UrlError and the message of   *)
(* the error thrown ('' when nothing is thrown).                           *)
(***************************************************************************)
NotThrown == ""

urlParseError(analyzeResult) ==
  IF analyzeResult.kind = "opaque" THEN "URL is non-hierarchical"
  ELSE IF analyzeResult.kind = "invalid-origin" THEN "Invalid origin"
  ELSE "Invalid URL"

Outcome(instance, thrown) ==
  [instance |-> instance, thrown |-> IF instance.kind \in UrlKinds THEN NotThrown ELSE thrown]

\* what the constructor of the kind throws on parts: the URIError of
\* decodeURIComponent out of parsePath, else the constructor's own error
partsThrown(parts, message) == IF ~parts.ok THEN "URIError" ELSE message

\* new FullPathUrl(s) on a string
FullPathUrl_ofString(s) ==
  IF analyzeUrl(s).kind # "hierarchical"
    THEN Outcome(UrlError, urlParseError(analyzeUrl(s)))
    ELSE Outcome(FullPathUrl_new(parseFullUrl(s)),
                 partsThrown(parseFullUrl(s), "FullPathUrl requires an absolute pathname"))

\* new RootPathUrl(s) on a string
RootPathUrl_ofString(s) ==
  Outcome(Url_fromString("root", s), partsThrown(parsePath(s), "RootPathUrl must start with '/'"))

\* new RelativePathUrl(s) on a string
RelativePathUrl_ofString(s) ==
  Outcome(Url_fromString("relative", s),
          partsThrown(parsePath(s), "RelativePathUrl must not start with '/'"))

\* pathUrl on a string
pathUrl(s) ==
  IF analyzeUrl(s).kind # "invalid" THEN FullPathUrl_ofString(s)
  ELSE IF isRootPathUrlString(s) THEN RootPathUrl_ofString(s)
  ELSE IF isRelativePathUrlString(s) THEN RelativePathUrl_ofString(s)
  ELSE Outcome(UrlError, "Cannot determine URL path type")

\* pathUrl on an instance of UrlBase
pathUrlOfInstance(path) == Outcome(path, NotThrown)

(***************************************************************************)
(* pathUrl and new FullPathUrl on strings made of a prefix (a scheme, with *)
(* or without '//', or none) and a tail, and pathUrl on instances.         *)
(***************************************************************************)
MaxTailLen == 3

TailChars == {"/", "a", "?", "%"}

UrlPrefixes ==
  {<<>>, <<"/", "/">>,
   <<"h", "t", "t", "p", ":", "/", "/">>, <<"H", "T", "T", "P", ":", "/", "/">>,
   <<"w", "s", ":", "/", "/">>, <<"f", "i", "l", "e", ":", "/", "/">>,
   <<"h", "t", "t", "p", ":">>, <<"m", "a", "i", "l", "t", "o", ":">>,
   <<"x", ":", "/", "/">>, <<"a", "-", "2", ":">>, <<"2", ":">>, <<":">>}

UrlTexts == {prefix \o tail : prefix \in UrlPrefixes, tail \in Strings(TailChars, MaxTailLen)}

InitPathUrl ==
  /\ \/ /\ cur \in UrlTexts
        /\ knownAuthority(analyzeUrl(cur).authority)
        /\ op = "string"
     \/ /\ \E kind \in UrlKinds : \E s \in Strings(TailChars, MaxTailLen) :
             cur = Url_fromString(kind, urlText(kind, s))
        /\ cur.kind \in UrlKinds
        /\ op = "instance"
  /\ recv = UrlError
  /\ args = <<>>
  /\ out = NoOut

PathUrl ==
  /\ op = "string"
  /\ out' = pathUrl(cur)
  /\ op' = "pathUrl"
  /\ UNCHANGED <<cur, recv, args>>

PathUrlOfInstance ==
  /\ op = "instance"
  /\ out' = pathUrlOfInstance(cur)
  /\ op' = "pathUrl of instance"
  /\ UNCHANGED <<cur, recv, args>>

NewFullPathUrl ==
  /\ op = "string"
  /\ out' = FullPathUrl_ofString(cur)
  /\ op' = "new FullPathUrl"
  /\ UNCHANGED <<cur, recv, args>>

NextPathUrl == PathUrl \/ PathUrlOfInstance \/ NewFullPathUrl

SpecPathUrl == InitPathUrl /\ [][NextPathUrl]_vars

(***************************************************************************)
(* PathBase: filename, parent, segments and the operations on them.        *)
(***************************************************************************)
\* #filename
PathBase_filenameStr(this) == fnt_basename(this.path)

PathBase_filename(this) == Filename_new(PathBase_filenameStr(this))

PathBase_parent(this) == PathBase_cloneWithPath(this, pth_dirname(this.path))

PathBase_segments(this) == filterBoolean(split(this.path, PATH_SEPARATOR))

\* this.parent.join(filename)
PathBase_cloneWithFilename(this, filename) == PathBase_join(PathBase_parent(this), <<filename>>)

\* cloneWithFilename on a Filename that a Filename operation returned
PathBase_cloneWithFilenameOf(this, filename) ==
  IF ~filename.ok THEN PathError ELSE PathBase_cloneWithFilename(this, filename.v)

PathBase_replaceStem(this, newStem) ==
  PathBase_cloneWithFilenameOf(this, Filename_replaceStem(PathBase_filename(this), newStem))

PathBase_replaceExtension(this, newExt) ==
  PathBase_cloneWithFilenameOf(this, Filename_replaceExtension(PathBase_filename(this), newExt))

PathBase_replaceFilename(this, newFilename) == PathBase_cloneWithFilename(this, newFilename)

\* transformFilename(fn), with result the string of what fn returns
PathBase_transformFilename(this, result) == PathBase_cloneWithFilename(this, result)

PathBase_replaceParent(this, newParent) ==
  PathBase_cloneWithPath(this, pth_join(<<newParent, PathBase_filenameStr(this)>>))

(***************************************************************************)
(* Plain path instances under equals, parent and the filename operations.  *)
(* Operations act on a freshly constructed instance; CopyPath is the copy  *)
(* constructor, which hands a result on to the next operation.             *)
(***************************************************************************)
MaxNameLen == 2

PlainKinds == {"abs", "rel"}

NameChars == {"/", ".", "x"}

NameArgs == Strings(NameChars, MaxNameLen)

InitPathOps ==
  /\ \E kind \in {"abs", "rel"}, s \in Strings(PathChars, MaxLen) :
       /\ Path_new(kind, s) # PathError
       /\ cur = Path_new(kind, s)
  /\ op = "new"
  /\ recv = PathError
  /\ args = <<>>
  /\ out = NoOut

CopyPath ==
  /\ op \notin {"new", "equals"}
  /\ cur.kind \in PlainKinds
  /\ Len(cur.path) <= MaxLen
  /\ cur' = Path_new(cur.kind, cur.path)
  /\ op' = "new"
  /\ recv' = PathError
  /\ args' = <<>>
  /\ UNCHANGED out

PathEquals ==
  /\ op = "new"
  /\ cur.kind \in PlainKinds
  /\ \E s \in Strings(PathChars, MaxLen) :
       /\ out' = PathBase_equals(cur, s)
       /\ args' = s
  /\ op' = "equals"
  /\ recv' = cur
  /\ UNCHANGED cur

PathParent ==
  /\ op = "new"
  /\ cur.kind \in PlainKinds
  /\ cur' = PathBase_parent(cur)
  /\ op' = "parent"
  /\ recv' = cur
  /\ args' = <<>>
  /\ UNCHANGED out

PathReplaceFilename ==
  /\ op = "new"
  /\ cur.kind \in PlainKinds
  /\ \E a \in NameArgs :
       /\ cur' = PathBase_replaceFilename(cur, a)
       /\ args' = a
  /\ op' = "replaceFilename"
  /\ recv' = cur
  /\ UNCHANGED out

PathReplaceStem ==
  /\ op = "new"
  /\ cur.kind \in PlainKinds
  /\ \E a \in NameArgs :
       /\ cur' = PathBase_replaceStem(cur, a)
       /\ args' = a
  /\ op' = "replaceStem"
  /\ recv' = cur
  /\ UNCHANGED out

PathReplaceExtension ==
  /\ op = "new"
  /\ cur.kind \in PlainKinds
  /\ \E a \in NameArgs :
       /\ cur' = PathBase_replaceExtension(cur, a)
       /\ args' = a
  /\ op' = "replaceExtension"
  /\ recv' = cur
  /\ UNCHANGED out

\* transformFilename(fn) with fn returning a
PathTransformFilename ==
  /\ op = "new"
  /\ cur.kind \in PlainKinds
  /\ \E a \in NameArgs :
       /\ cur' = PathBase_transformFilename(cur, a)
       /\ args' = a
  /\ op' = "transformFilename"
  /\ recv' = cur
  /\ UNCHANGED out

PathReplaceParent ==
  /\ op = "new"
  /\ cur.kind \in PlainKinds
  /\ \E a \in NameArgs :
       /\ cur' = PathBase_replaceParent(cur, a)
       /\ args' = a
  /\ op' = "replaceParent"
  /\ recv' = cur
  /\ UNCHANGED out

PathJoin ==
  /\ op = "new"
  /\ cur.kind \in PlainKinds
  /\ \E a \in NameArgs :
       /\ cur' = PathBase_join(cur, <<a>>)
       /\ args' = a
  /\ op' = "join"
  /\ recv' = cur
  /\ UNCHANGED out

PathResolve ==
  /\ op = "new"
  /\ cur.kind = "abs"
  /\ \E a \in NameArgs :
       /\ cur' = AbsolutePath_resolve(cur, <<a>>)
       /\ args' = a
  /\ op' = "resolve"
  /\ recv' = cur
  /\ UNCHANGED out

NextPathOps ==
  \/ CopyPath \/ PathEquals \/ PathParent \/ PathReplaceFilename \/ PathReplaceStem
  \/ PathReplaceExtension \/ PathTransformFilename \/ PathReplaceParent
  \/ PathJoin \/ PathResolve

SpecPathOps == InitPathOps /\ [][NextPathOps]_vars

(***************************************************************************)
(* Sequences of operations on plain and URL path instances.                *)
(*                                                                         *)
(* The first state is a constructor call, which gives an instance or       *)
(* throws; args records the call as <<form, kind, input>>.  CopyPath (the  *)
(* copy constructor) and SeqPathUrl (pathUrl on an instance, which returns *)
(* it) hand the result of one operation on to the next.                    *)
(***************************************************************************)
MaxSeqLen == 2
MaxSeqArgLen == 1

SeqChars == {"/", "a", "."}

\* the strings handed to the operations on URL paths
SeqArgs ==
  Strings(SeqChars, MaxSeqArgLen)
    \cup {<<".", ".">>, <<"/", "a">>, <<"a", "?", "a">>, <<"/", "/", "a">>}

SeqQuery == Query(<<Scalar(<<"a">>, <<"a">>)>>)

SeqParts(p) == [ok |-> TRUE, pathname |-> p, query |-> NoQuery, fragment |-> NoFragment]

InitSeq ==
  /\ \/ \E kind \in PlainKinds, s \in Strings(PathChars, MaxSeqLen + 1) :
          /\ cur = Path_new(kind, s)
          /\ args = <<"path", kind, s>>
     \/ \E kind \in UrlKinds, p \in Strings(SeqChars, MaxSeqLen), suffix \in FileSuffixes :
          /\ kind = "full" => knownAuthority(analyzeUrl(urlText(kind, p \o suffix)).authority)
          /\ cur = Url_fromString(kind, urlText(kind, p \o suffix))
          /\ args = <<"string", kind, p \o suffix>>
     \/ \E kind \in UrlKinds, p \in Strings(SeqChars, MaxSeqLen) :
          /\ cur = Url_new(kind, withOrigin(SeqParts(p), kind = "full", urlText(kind, <<>>)))
          /\ args = <<"parts", kind, p>>
  /\ op = "new"
  /\ recv = UrlError
  /\ out = NoOut

\* pathUrl(u) on the instance u an operation returned
SeqPathUrl ==
  /\ op # "new"
  /\ cur.kind \in UrlKinds
  /\ Len(cur.pathname) <= MaxSeqLen
  /\ cur' = pathUrlOfInstance(cur).instance
  /\ op' = "new"
  /\ recv' = UrlError
  /\ args' = <<>>
  /\ UNCHANGED out

SeqJoin ==
  /\ op = "new"
  /\ cur.kind \in UrlKinds
  /\ \E a \in SeqArgs :
       /\ cur' = UrlBase_join(cur, <<a>>)
       /\ args' = <<a>>
  /\ op' = "join"
  /\ recv' = cur
  /\ UNCHANGED out

SeqResolve ==
  /\ op = "new"
  /\ cur.kind \in {"root", "full"}
  /\ \E a \in SeqArgs :
       /\ cur' = UrlBase_resolve(cur, <<a>>)
       /\ args' = <<a>>
  /\ op' = "resolve"
  /\ recv' = cur
  /\ UNCHANGED out

SeqParent ==
  /\ op = "new"
  /\ cur.kind \in UrlKinds
  /\ cur' = UrlBase_parent(cur)
  /\ op' = "parent"
  /\ recv' = cur
  /\ args' = <<>>
  /\ UNCHANGED out

SeqReplaceFilename ==
  /\ op = "new"
  /\ cur.kind \in UrlKinds
  /\ \E a \in SeqArgs :
       /\ cur' = UrlBase_replaceFilename(cur, a)
       /\ args' = <<a>>
  /\ op' = "replaceFilename"
  /\ recv' = cur
  /\ UNCHANGED out

SeqReplaceStem ==
  /\ op = "new"
  /\ cur.kind \in UrlKinds
  /\ \E a \in SeqArgs :
       /\ cur' = UrlBase_replaceStem(cur, a)
       /\ args' = <<a>>
  /\ op' = "replaceStem"
  /\ recv' = cur
  /\ UNCHANGED out

SeqReplaceExtension ==
  /\ op = "new"
  /\ cur.kind \in UrlKinds
  /\ \E a \in SeqArgs :
       /\ cur' = UrlBase_replaceExtension(cur, a)
       /\ args' = <<a>>
  /\ op' = "replaceExtension"
  /\ recv' = cur
  /\ UNCHANGED out

\* transformFilename(fn) with fn returning a
SeqTransformFilename ==
  /\ op = "new"
  /\ cur.kind \in UrlKinds
  /\ \E a \in SeqArgs :
       /\ cur' = UrlBase_transformFilename(cur, a)
       /\ args' = <<a>>
  /\ op' = "transformFilename"
  /\ recv' = cur
  /\ UNCHANGED out

SeqReplaceParent ==
  /\ op = "new"
  /\ cur.kind \in UrlKinds
  /\ \E a \in SeqArgs :
       /\ cur' = UrlBase_replaceParent(cur, a)
       /\ args' = <<a>>
  /\ op' = "replaceParent"
  /\ recv' = cur
  /\ UNCHANGED out

SeqReplacePathname ==
  /\ op = "new"
  /\ cur.kind \in UrlKinds
  /\ \E a \in SeqArgs :
       /\ cur' = UrlBase_replacePathname(cur, a)
       /\ args' = <<a>>
  /\ op' = "replacePathname"
  /\ recv' = cur
  /\ UNCHANGED out

SeqUnDirectory ==
  /\ op = "new"
  /\ cur.kind \in UrlKinds
  /\ cur' = UrlBase_unDirectory(cur)
  /\ op' = "unDirectory"
  /\ recv' = cur
  /\ args' = <<>>
  /\ UNCHANGED out

SeqReplaceQuery ==
  /\ op = "new"
  /\ cur.kind \in UrlKinds
  /\ \E q \in {EmptyQuery, SeqQuery} :
       /\ cur' = UrlBase_replaceQuery(cur, q)
       /\ args' = <<q>>
  /\ op' = "replaceQuery"
  /\ recv' = cur
  /\ UNCHANGED out

SeqMergeQuery ==
  /\ op = "new"
  /\ cur.kind \in UrlKinds
  /\ cur' = UrlBase_mergeQuery(cur, SeqQuery)
  /\ args' = <<SeqQuery>>
  /\ op' = "mergeQuery"
  /\ recv' = cur
  /\ UNCHANGED out

SeqRemoveQuery ==
  /\ op = "new"
  /\ cur.kind \in UrlKinds
  /\ cur' = UrlBase_removeQuery(cur)
  /\ op' = "removeQuery"
  /\ recv' = cur
  /\ args' = <<>>
  /\ UNCHANGED out

SeqReplaceFragment ==
  /\ op = "new"
  /\ cur.kind \in UrlKinds
  /\ cur' = UrlBase_replaceFragment(cur, <<"a">>)
  /\ args' = <<"a">>
  /\ op' = "replaceFragment"
  /\ recv' = cur
  /\ UNCHANGED out

SeqRemoveFragment ==
  /\ op = "new"
  /\ cur.kind \in UrlKinds
  /\ cur' = UrlBase_removeFragment(cur)
  /\ op' = "removeFragment"
  /\ recv' = cur
  /\ args' = <<>>
  /\ UNCHANGED out

NextSeq ==
  \/ CopyPath \/ PathParent \/ PathReplaceFilename \/ PathReplaceStem
  \/ PathReplaceExtension \/ PathTransformFilename \/ PathReplaceParent
  \/ PathJoin \/ PathResolve
  \/ SeqPathUrl \/ SeqJoin \/ SeqResolve \/ SeqParent \/ SeqReplaceFilename
  \/ SeqReplaceStem \/ SeqReplaceExtension \/ SeqTransformFilename
  \/ SeqReplaceParent \/ SeqReplacePathname \/ SeqUnDirectory
  \/ SeqReplaceQuery \/ SeqMergeQuery \/ SeqRemoveQuery
  \/ SeqReplaceFragment \/ SeqRemoveFragment

SpecSeq == InitSeq /\ [][NextSeq]_vars

(***************************************************************************)
(* Query objects as the caller and the instances share them.               *)
(*                                                                         *)
(* The heap holds the query objects and the arrays that are their values.  *)
(* An object is its entries [k, arr, vs, ref]: a scalar entry carries its  *)
(* string in vs, an array entry the array's position in arrs as ref.  An   *)
(* instance is [kind, origin, pathname, q, fragment] with q the position   *)
(* of its #query object in objs, 0 for undefined.  Here cur is [objs,      *)
(* arrs, insts]; args is what the caller holds: the parts object as given  *)
(* to the constructor, the parts object as it is now, and the query        *)
(* objects it has a reference to; out lists what each instance reported    *)
(* when it was made; recv is the receiver of the last call.                *)
(***************************************************************************)
MaxObjs == 2
MaxInsts == 2
MaxArrLen == 2

HeapKeys == {<<"a">>, <<"b">>}

HeapPathnames == {<<"/", "a">>, <<".">>}

\* the queries of the first instance, as values
HeapQueries ==
  {NoQuery, Query(<<Scalar(<<"a">>, <<"a">>)>>), Query(<<Arr(<<"a">>, << <<"a">> >>)>>),
   Query(<<Arr(<<"a">>, << <<"a">> >>), Scalar(<<"b">>, <<"a">>)>>)}

\* the number of array values among the first j entries
arraysUpTo(ent, j) == Cardinality({i \in 1..j : ent[i].arr})

\* the object with the given properties, its arrays allocated after base
heapEntries(ent, base) ==
  [j \in 1..Len(ent) |->
    [k |-> ent[j].k, arr |-> ent[j].arr,
     vs |-> IF ent[j].arr THEN <<>> ELSE ent[j].vs,
     ref |-> IF ent[j].arr THEN base + arraysUpTo(ent, j) ELSE 0]]

heapArrays(ent) == [j \in 1..arraysUpTo(ent, Len(ent)) |->
                      ent[CHOOSE i \in 1..Len(ent) : ent[i].arr /\ arraysUpTo(ent, i) = j].vs]

\* the query an instance reports: the properties of its object, arrays read through
heapQuery(heap, q) ==
  IF q = 0 THEN NoQuery
  ELSE [present |-> TRUE,
        ent |-> [j \in 1..Len(heap.objs[q]) |->
                  [k |-> heap.objs[q][j].k, arr |-> heap.objs[q][j].arr,
                   vs |-> IF heap.objs[q][j].arr THEN heap.arrs[heap.objs[q][j].ref]
                          ELSE heap.objs[q][j].vs]]]

\* what the accessors of an instance give: origin, pathname, query, fragment
Report(heap, inst) ==
  [kind |-> inst.kind, origin |-> inst.origin, pathname |-> inst.pathname,
   query |-> heapQuery(heap, inst.q), fragment |-> inst.fragment]

\* new ctor(parts): #query is the parts' query object itself
UrlBase_ofParts(made, q) ==
  [kind |-> made.kind, origin |-> made.origin, pathname |-> made.pathname, q |-> q,
   fragment |-> made.fragment]

HeapNew(kind, pathname, q) ==
  UrlBase_ofParts(Url_new(kind, withOrigin(SeqParts(pathname), kind = "full", urlText(kind, <<>>))), q)

\* the FullPathUrl constructor assigns parts.pathname = '/' when it is '.'
partsAfterNew(kind, parts) ==
  IF kind = "full" /\ parts.pathname = <<".">> THEN [parts EXCEPT !.pathname = <<"/">>] ELSE parts

NoParts == [pathname |-> <<>>, q |-> 0]

\* The first instance is constructed from a parts object whose query the
\* caller keeps a reference to, or from a string.
InitHeap ==
  /\ \E kind \in {"root", "full"}, pathname \in HeapPathnames, query \in HeapQueries :
       /\ HeapNew(kind, pathname, 0).kind \in UrlKinds
       /\ cur = [objs |-> IF query.present THEN <<heapEntries(query.ent, 0)>> ELSE <<>>,
                 arrs |-> heapArrays(query.ent),
                 insts |-> <<HeapNew(kind, pathname, IF query.present THEN 1 ELSE 0)>>]
       /\ \/ args = [given |-> [pathname |-> pathname, q |-> IF query.present THEN 1 ELSE 0],
                     parts |-> partsAfterNew(kind, [pathname |-> pathname,
                                                    q |-> IF query.present THEN 1 ELSE 0]),
                     held |-> IF query.present THEN {1} ELSE {}]
          \/ /\ pathname # <<".">>
             /\ \A j \in 1..Len(query.ent) : ~query.ent[j].arr
             /\ args = [given |-> NoParts, parts |-> NoParts, held |-> {}]
  /\ out = <<Report(cur, cur.insts[1])>>
  /\ op = "new"
  /\ recv = 0

\* u.query: a new object with the properties of #query
GetQuery ==
  /\ Len(cur.objs) < MaxObjs
  /\ \E i \in 1..Len(cur.insts) :
       /\ cur.insts[i].q # 0
       /\ cur' = [cur EXCEPT !.objs = Append(@, cur.objs[cur.insts[i].q])]
       /\ recv' = i
  /\ args' = [args EXCEPT !.held = @ \cup {Len(cur.objs) + 1}]
  /\ op' = "query"
  /\ UNCHANGED out

\* the caller assigns q[k] = 'x' on a query object it holds
CallerSetsProperty ==
  /\ \E h \in args.held, k \in HeapKeys :
       cur' = [cur EXCEPT !.objs[h] =
                 setProperty(@, [k |-> k, arr |-> FALSE, vs |-> << <<"x">> >>, ref |-> 0])]
  /\ op' = "set property"
  /\ recv' = 0
  /\ UNCHANGED <<args, out>>

\* the caller calls q[k].push('x') on an array value of a query object it holds
CallerPushes ==
  /\ \E h \in args.held : \E j \in 1..Len(cur.objs[h]) :
       /\ cur.objs[h][j].arr
       /\ Len(cur.arrs[cur.objs[h][j].ref]) < MaxArrLen
       /\ cur' = [cur EXCEPT !.arrs[cur.objs[h][j].ref] = Append(@, <<"x">>)]
  /\ op' = "push"
  /\ recv' = 0
  /\ UNCHANGED <<args, out>>

\* the caller assigns parts.pathname = 'x' or deletes parts.query on the
\* parts object it gave to the constructor, once the constructor has returned
CallerSetsParts ==
  /\ op = "new"
  /\ args.given # NoParts
  /\ \/ args' = [args EXCEPT !.parts.pathname = <<"x">>]
     \/ args' = [args EXCEPT !.parts.q = 0]
  /\ op' = "set parts"
  /\ recv' = 0
  /\ UNCHANGED <<cur, out>>

\* what an operation does with the instance it made
HeapMade(heap, inst) ==
  /\ cur' = [heap EXCEPT !.insts = Append(@, inst)]
  /\ out' = Append(out, Report(heap, inst))

\* u.replaceQuery(q) with a query object the caller holds: nextParts hands
\* q itself to the constructor
HeapReplaceQuery ==
  /\ Len(cur.insts) < MaxInsts
  /\ \E i \in 1..Len(cur.insts) : \E h \in args.held :
       /\ HeapMade(cur, [cur.insts[i] EXCEPT !.q = h])
       /\ recv' = i
  /\ op' = "replaceQuery"
  /\ UNCHANGED args

\* u.mergeQuery(q): { ...this.#query, ...q } is a new object with the values
\* of both
HeapMergeQuery ==
  /\ Len(cur.insts) < MaxInsts
  /\ Len(cur.objs) < MaxObjs
  /\ \E i \in 1..Len(cur.insts) : \E h \in args.held :
       /\ HeapMade([cur EXCEPT !.objs =
                      Append(@, spread(IF cur.insts[i].q = 0 THEN <<>> ELSE cur.objs[cur.insts[i].q],
                                       cur.objs[h]))],
                   [cur.insts[i] EXCEPT !.q = Len(cur.objs) + 1])
       /\ recv' = i
  /\ op' = "mergeQuery"
  /\ UNCHANGED args

\* u.rootPath: new RootPathUrl(this.parts), with the #query of u
HeapRootPath ==
  /\ Len(cur.insts) < MaxInsts
  /\ \E i \in 1..Len(cur.insts) :
       /\ cur.insts[i].kind = "full"
       /\ HeapMade(cur, [cur.insts[i] EXCEPT !.kind = "root", !.origin = <<>>])
       /\ recv' = i
  /\ op' = "rootPath"
  /\ UNCHANGED args

NextHeap ==
  \/ GetQuery \/ CallerSetsProperty \/ CallerPushes \/ CallerSetsParts
  \/ HeapReplaceQuery \/ HeapMergeQuery \/ HeapRootPath

SpecHeap == InitHeap /\ [][NextHeap]_vars

(***************************************************************************)
(* relativeTo and descendsFrom of the absolute kinds: AbsolutePath,        *)
(* RootPathUrl and FullPathUrl.  The receiver is constructed from a        *)
(* string; the other path is an instance of the receiver's class, for a    *)
(* FullPathUrl of the same or of another origin.                           *)
(***************************************************************************)
MaxRelLen == 4

RelChars == {"/", "a", "."}

RelPathnames == {s \in Strings(RelChars, MaxRelLen) : pth_isAbsolute(s)}

RelDecorations == {<<>>, <<"?", "a", "=", "a">>, <<"#", "a">>, <<"?", "a", "=", "a", "#", "a">>}

OtherOrigin == <<"h", "t", "t", "p", ":", "/", "/", "b">>

RelKinds == {"abs", "root", "full"}

\* new ctor(s) for the absolute kinds, of the origin given for a FullPathUrl
Absolute_new(kind, origin, s) ==
  IF kind = "abs" THEN AbsolutePath_new(s) ELSE Url_fromString(kind, IF kind = "full" THEN origin \o s ELSE s)

RootPathUrl_relativeTo(this, base) ==
  RelativePathUrl_new([ok |-> TRUE, pathname |-> pth_relative(base.pathname, this.pathname),
                       query |-> NoQuery, fragment |-> NoFragment])

FullPathUrl_relativeTo(this, base) ==
  IF this.origin # base.origin THEN UrlError
  ELSE RelativePathUrl_new(
         UrlBase_nextParts(this, Overrides(TRUE, pth_relative(base.pathname, this.pathname),
                                           NoQuery, NoFragment)))

Absolute_relativeTo(this, base) ==
  IF this.kind = "abs" THEN AbsolutePath_relativeTo(this, base)
  ELSE IF this.kind = "root" THEN RootPathUrl_relativeTo(this, base)
  ELSE FullPathUrl_relativeTo(this, base)

AbsolutePath_descendsFrom(this, ancestor, includeSelf) ==
  pth_descendsFrom(pth_resolve(<<ancestor.path>>), this.path, includeSelf)

RootPathUrl_descendsFrom(this, ancestorUrl, includeSelf) ==
  pth_descendsFrom(ancestorUrl.pathname, this.pathname, includeSelf)

FullPathUrl_descendsFrom(this, ancestorUrl, includeSelf) ==
  IF this.origin # ancestorUrl.origin THEN FALSE
  ELSE pth_descendsFrom(ancestorUrl.pathname, this.pathname, includeSelf)

Absolute_descendsFrom(this, ancestor, includeSelf) ==
  IF this.kind = "abs" THEN AbsolutePath_descendsFrom(this, ancestor, includeSelf)
  ELSE IF this.kind = "root" THEN RootPathUrl_descendsFrom(this, ancestor, includeSelf)
  ELSE FullPathUrl_descendsFrom(this, ancestor, includeSelf)

\* the instances of the receiver's class that can be the other path
Others(this) ==
  {Absolute_new(this.kind, o, s) : o \in {FullOrigin, OtherOrigin}, s \in RelPathnames}

InitRel ==
  /\ \E kind \in RelKinds : \E s \in RelPathnames : \E d \in RelDecorations :
       /\ kind = "abs" => d = <<>>
       /\ cur = Absolute_new(kind, FullOrigin, s \o d)
       /\ args = s \o d
  /\ op = "new"
  /\ recv = UrlError
  /\ out = NoOut

RelRelativeTo ==
  /\ op = "new"
  /\ \E base \in Others(cur) :
       /\ cur' = Absolute_relativeTo(cur, base)
       /\ args' = base
  /\ op' = "relativeTo"
  /\ recv' = cur
  /\ UNCHANGED out

RelDescendsFrom ==
  /\ op = "new"
  /\ \E ancestor \in Others(cur) : \E includeSelf \in BOOLEAN :
       /\ out' = Absolute_descendsFrom(cur, ancestor, includeSelf)
       /\ args' = [ancestor |-> ancestor, includeSelf |-> includeSelf]
  /\ op' = "descendsFrom"
  /\ recv' = cur
  /\ UNCHANGED cur

NextRel == RelRelativeTo \/ RelDescendsFrom

SpecRel == InitRel /\ [][NextRel]_vars

(***************************************************************************)
(* The origin of a FullPathUrl.  Instances are constructed from a string,  *)
(* from a native URL (whose string the platform gives with a lower-case    *)
(* scheme and host) or from a parts object; replaceOrigin and resolve give *)
(* new instances.                                                          *)
(***************************************************************************)
MaxOriginPathLen == 2

OriginTexts ==
  {<<"h", "t", "t", "p", ":", "/", "/", "a">>, <<"H", "T", "T", "P", ":", "/", "/", "A">>,
   <<"h", "t", "t", "p", ":", "/", "/", "B">>, <<"/", "/", "a">>, <<"/", "/", "A">>}

OriginPaths == {p \in Strings({"/", "a"}, MaxOriginPathLen) : p = <<>> \/ pth_isAbsolute(p)}

hasScheme(o) == schemeOf(o) # <<>>

\* String(url) of the native URL made from the text o + p
hrefOf(o, p) == toLowerCase(o) \o (IF p = <<>> THEN <<"/">> ELSE p)

OriginPartsOf(o, p) ==
  withOrigin([ok |-> TRUE, pathname |-> p, query |-> NoQuery, fragment |-> NoFragment], TRUE, o)

FullPathUrl_replaceOrigin(this, origin) ==
  UrlBase_cloneWithParts(this, Overrides(FALSE, <<>>, NoQuery, NoFragment), TRUE, origin)

InitOrigin ==
  /\ \E o \in OriginTexts : \E p \in OriginPaths :
       \/ /\ cur = Url_fromString("full", o \o p)
          /\ args = <<"string", o \o p>>
       \/ /\ hasScheme(o)
          /\ cur = Url_fromString("full", hrefOf(o, p))
          /\ args = <<"url", o \o p>>
       \/ /\ cur = FullPathUrl_new(OriginPartsOf(o, p))
          /\ args = <<"parts", o, p>>
  /\ cur # UrlError
  /\ op = "new"
  /\ recv = UrlError
  /\ out = NoOut

\* new FullPathUrl(u) on an instance
OriginCopy ==
  /\ op \in {"replaceOrigin", "resolve"}
  /\ cur # UrlError
  /\ cur' = FullPathUrl_new(UrlBase_parts(cur))
  /\ op' = "new"
  /\ args' = <<"instance">>
  /\ UNCHANGED <<recv, out>>

OriginReplace ==
  /\ op = "new"
  /\ \E o \in OriginTexts :
       /\ cur' = FullPathUrl_replaceOrigin(cur, o)
       /\ args' = <<o>>
  /\ op' = "replaceOrigin"
  /\ recv' = cur
  /\ UNCHANGED out

\* replaceOrigin(other) with another instance: other.#origin
OriginReplaceByInstance ==
  /\ op = "new"
  /\ \E o \in OriginTexts :
       /\ cur' = FullPathUrl_replaceOrigin(cur, Url_fromString("full", o).origin)
       /\ args' = <<Url_fromString("full", o)>>
  /\ op' = "replaceOrigin"
  /\ recv' = cur
  /\ UNCHANGED out

OriginResolve ==
  /\ op = "new"
  /\ \E o \in OriginTexts : \E p \in OriginPaths :
       /\ cur' = UrlBase_resolve(cur, <<o \o p>>)
       /\ args' = <<o \o p>>
  /\ op' = "resolve"
  /\ recv' = cur
  /\ UNCHANGED out

NextOrigin == OriginCopy \/ OriginReplace \/ OriginReplaceByInstance \/ OriginResolve

SpecOrigin == InitOrigin /\ [][NextOrigin]_vars

(***************************************************************************)
(* Filename instances: construction from a string, the stem and extension  *)
(* getters, replaceStem and replaceExtension.  A constructor that throws   *)
(* gives FilenameError.                                                    *)
(***************************************************************************)
MaxFnLen == 4

FnChars == {"a", ".", "/"}

FnArgs == Strings(FnChars, 2)

InitFilename ==
  /\ \E s \in Strings(FnChars, MaxFnLen) :
       /\ cur = Filename_new(s)
       /\ args = s
  /\ op = "new"
  /\ recv = FilenameError
  /\ out = NoOut

\* new Filename(f) on an instance
FnCopy ==
  /\ op \in {"replaceStem", "replaceExtension"}
  /\ cur.ok
  /\ Len(cur.v) <= MaxFnLen + 1
  /\ cur' = Filename_new(cur.v)
  /\ op' = "new"
  /\ args' = cur.v
  /\ recv' = FilenameError
  /\ UNCHANGED out

\* the getters stem and extension, and toString
FnRead ==
  /\ op = "new"
  /\ cur.ok
  /\ out' = [stem |-> Filename_stem(cur), extension |-> Filename_extension(cur), string |-> cur.v]
  /\ op' = "read"
  /\ UNCHANGED <<cur, recv, args>>

\* replaceStem(s), s being any string or the receiver's own stem
FnReplaceStem ==
  /\ op = "new"
  /\ cur.ok
  /\ \E a \in FnArgs \cup {Filename_stem(cur)} :
       /\ cur' = Filename_replaceStem(cur, a)
       /\ args' = a
  /\ op' = "replaceStem"
  /\ recv' = cur
  /\ UNCHANGED out

FnReplaceExtension ==
  /\ op = "new"
  /\ cur.ok
  /\ \E a \in FnArgs :
       /\ cur' = Filename_replaceExtension(cur, a)
       /\ args' = a
  /\ op' = "replaceExtension"
  /\ recv' = cur
  /\ UNCHANGED out

NextFilename == FnCopy \/ FnRead \/ FnReplaceStem \/ FnReplaceExtension

SpecFilename == InitFilename /\ [][NextFilename]_vars

(***************************************************************************)
(* join and resolve of a URL path with arguments that hold a query or a    *)
(* fragment and no pathname text.  The receiver is constructed from a      *)
(* string.                                                                 *)
(***************************************************************************)
MaxDecorLen == 3

DecorChars == {"/", "a", "."}

\* the arguments: '?a=a', '#a', '?a=a#a', '?' and '#'
DecorArgs ==
  {<<"?", "a", "=", "a">>, <<"#", "a">>, <<"?", "a", "=", "a", "#", "a">>, <<"?">>, <<"#">>}

DecorArgLists == {<<a>> : a \in DecorArgs} \cup {<<a, b>> : a \in DecorArgs, b \in DecorArgs}

InitDecor ==
  /\ \E kind \in UrlKinds : \E s \in Strings(DecorChars, MaxDecorLen) : \E d \in RelDecorations :
       /\ cur = Url_fromString(kind, urlText(kind, s \o d))
       /\ args = urlText(kind, s \o d)
  /\ op = "new"
  /\ recv = UrlError
  /\ out = NoOut

DecorJoin ==
  /\ op = "new"
  /\ cur.kind \in UrlKinds
  /\ \E segments \in DecorArgLists :
       /\ cur' = UrlBase_join(cur, segments)
       /\ args' = segments
  /\ op' = "join"
  /\ recv' = cur
  /\ UNCHANGED out

DecorResolve ==
  /\ op = "new"
  /\ cur.kind \in {"root", "full"}
  /\ \E args_ \in DecorArgLists :
       /\ cur' = UrlBase_resolve(cur, args_)
       /\ args' = args_
  /\ op' = "resolve"
  /\ recv' = cur
  /\ UNCHANGED out

NextDecor == DecorJoin \/ DecorResolve

SpecDecor == InitDecor /\ [][NextDecor]_vars
(***************************************************************************)
(* Claims about the normalisers and the plain paths.                       *)
(***************************************************************************)
isDotDot(segment) == segment = <<".", ".">>

hasDotDot(p) == \E i \in 1..Len(split(p, "/")) : isDotDot(split(p, "/")[i])

\* C1: normalisation is idempotent: the result of normalize is a fixed point
\* of normalize, and the result of normalizePathname is a fixed point of
\* normalizePathname.
C1_NormalizeIdempotent ==
  /\ op = "normalize" => pth_normalize(cur) = cur
  /\ op = "normalizePathname" => urt_normalizePathname(cur) = cur

\* a raw string with '..' and a trailing slash was rewritten by each normaliser
C1_Witness ==
  /\ op \in {"normalize", "normalizePathname"}
  /\ hasDotDot(recv)
  /\ endsWith(recv, "/")
  /\ cur # recv

\* C2: relativeTo and join are inverse: for AbsolutePath base and child,
\* base.join(child.relativeTo(base)).equals(child).
C2_RelativeToJoinInverse ==
  op = "relativeTo" =>
    PathBase_equals(PathBase_join([kind |-> "abs", path |-> args[1]], <<cur.path>>),
                    recv.path)

\* the same law for a base that holds no '..' segment
C2_HoldsWithoutDotDot ==
  (op = "relativeTo" /\ ~hasDotDot(args[1])) =>
    PathBase_equals(PathBase_join([kind |-> "abs", path |-> args[1]], <<cur.path>>),
                    recv.path)

\* child and base are siblings: the relative path climbs and descends
C2_Witness ==
  /\ op = "relativeTo"
  /\ ~hasDotDot(args[1])
  /\ Len(cur.path) > 3
  /\ cur.path[1] = "." /\ cur.path[2] = "." /\ cur.path[3] = "/"

\* the index of the last argument that starts with '/', 0 if none
lastAbsolute(xs) ==
  IF \E i \in 1..Len(xs) : startsWith(xs[i], "/")
    THEN CHOOSE i \in 1..Len(xs) :
           startsWith(xs[i], "/") /\ \A j \in (i + 1)..Len(xs) : ~startsWith(xs[j], "/")
    ELSE 0

\* C3: plain resolve lets the last absolute argument win:
\* p.resolve(x1..xn) = new AbsolutePath(xk).join(xk+1..xn) for the last
\* absolute xk, = p.join(x1..xn) when none is absolute, = p with no
\* arguments, and the result is absolute.
C3_ResolveLastAbsoluteWins ==
  op = "resolve" =>
    LET xs == filterBoolean(args)
        k == lastAbsolute(xs)
    IN /\ k > 0 => cur = PathBase_join(AbsolutePath_new(xs[k]),
                                       SubSeq(xs, k + 1, Len(xs)))
       /\ k = 0 => cur = PathBase_join(recv, args)
       /\ xs = <<>> => cur = recv
       /\ cur.kind = "abs" /\ pth_isAbsolute(cur.path)

\* an absolute argument followed by a relative one: the receiver is dropped
C3_Witness ==
  /\ op = "resolve"
  /\ recv.path = <<"/", ".", "x">>
  /\ args = << <<"/", "x">>, <<"x">> >>
  /\ cur.path = <<"/", "x", "/", "x">>

\* C4: plain join only appends: p.join(x1..xn) is the same-kind path of p's
\* string followed by the non-empty parts, separated by '/'; an argument
\* starting with '/' never resets; p.join() = p.
C4_JoinOnlyAppends ==
  op = "join" =>
    /\ cur = Path_new(recv.kind, joinWith(<<recv.path>> \o filterBoolean(args), "/"))
    /\ filterBoolean(args) = <<>> => cur = recv

\* an argument starting with '/' was appended to a non-nil path
C4_Witness ==
  /\ op = "join"
  /\ recv.path \notin {<<"/">>, <<".">>}
  /\ \E i \in 1..Len(args) : Len(args[i]) > 1 /\ startsWith(args[i], "/")
  /\ Len(cur.path) > Len(recv.path)


(***************************************************************************)
(* Claims about the URL decorations and the string form.                   *)
(***************************************************************************)
contains(s, c) == indexOf(s, c) # -1

\* s is p?, or p?#, with no other '?' and no '#' in p
bareQuestion(s) ==
  LET t == IF endsWith(s, "#") THEN sliceTo(s, Len(s) - 1) ELSE s
  IN /\ endsWith(t, "?")
     /\ ~contains(sliceTo(t, Len(t) - 1), "?")
     /\ ~contains(t, "#")

\* s is p#, with no '#' in p
bareHash(s) == endsWith(s, "#") /\ ~contains(sliceTo(s, Len(s) - 1), "#")

\* the query is undefined or {}, and the fragment undefined or ''
undecorated(u) == u.query.ent = <<>> /\ u.fragment.v = <<>>

hasEscapeText(s) ==
  \E i \in 1..Len(s) : s[i] = "%" /\ i + 2 <= Len(s) /\ isHex(s[i + 1]) /\ isHex(s[i + 2])

\* parts in encoded form: the constructor keeps the pathname, which is
\* normalized; the encoder leaves the pathname and the fragment as they
\* are; no key or value of the query holds the text of an escape; and an
\* array value has at least two strings, the first of them not ''
encodedParts(kind, parts) ==
  /\ Url_new(kind, withOrigin(parts, kind = "full", urlText(kind, <<>>))).pathname = parts.pathname
  /\ urt_normalizePathname(parts.pathname) = parts.pathname
  /\ encodePathname(parts.pathname) = parts.pathname
  /\ parts.fragment.present => encodeComponent(parts.fragment.v) = parts.fragment.v
  /\ \A i \in 1..Len(parts.query.ent) :
       LET e == parts.query.ent[i]
       IN /\ ~hasEscapeText(e.k)
          /\ \A j \in 1..Len(e.vs) : ~hasEscapeText(e.vs[j])
          /\ e.arr => (Len(e.vs) >= 2 /\ e.vs[1] # <<>>)

C7_ToStringFixedPoint ==
  op = "reparse" => (cur # UrlError /\ Url_toString(cur) = out)

(***************************************************************************)
(* Claims about the operations of URL paths.                               *)
(***************************************************************************)
hasKey(q, k) == keyIndex(q.ent, k) > 0

valueOf(q, k) == q.ent[keyIndex(q.ent, k)]

\* C8: mergeQuery gives every key of its argument the argument's value,
\* keeps every other key of the receiver's query with its value, adds no
\* other key, and on a receiver with no query or an empty one gives what
\* replaceQuery gives.
C8_MergeQueryReplaces ==
  op = "mergeQuery" =>
    /\ cur # UrlError
    /\ cur.query.present
    /\ \A i \in 1..Len(args.q.ent) :
         hasKey(cur.query, args.q.ent[i].k) /\ valueOf(cur.query, args.q.ent[i].k) = args.q.ent[i]
    /\ \A i \in 1..Len(recv.query.ent) :
         ~hasKey(args.q, recv.query.ent[i].k) =>
           (hasKey(cur.query, recv.query.ent[i].k)
              /\ valueOf(cur.query, recv.query.ent[i].k) = recv.query.ent[i])
    /\ \A i \in 1..Len(cur.query.ent) :
         hasKey(args.q, cur.query.ent[i].k) \/ hasKey(recv.query, cur.query.ent[i].k)
    /\ recv.query.ent = <<>> => cur = UrlBase_replaceQuery(recv, args.q)
    /\ cur.pathname = recv.pathname /\ cur.fragment = recv.fragment /\ cur.origin = recv.origin

C8_Witness ==
  /\ op = "mergeQuery"
  /\ recv.query = Query(<<Scalar(<<"a", "a">>, <<"a">>), Arr(<<"a">>, << <<"a">>, <<"a">> >>)>>)
  /\ args.q = Query(<<Scalar(<<"a">>, <<>>)>>)
  /\ cur.query = Query(<<Scalar(<<"a", "a">>, <<"a">>), Scalar(<<"a">>, <<>>)>>)

\* the receiver after mergeQuery with the query of each argument that has one, in order
RECURSIVE mergedInOrder(_, _, _)
mergedInOrder(u, a, i) ==
  IF i > Len(a) THEN u
  ELSE IF Len(a[i]) > 0 /\ parsePath(a[i]).query.present
    THEN mergedInOrder(UrlBase_mergeQuery(u, parsePath(a[i]).query), a, i + 1)
    ELSE mergedInOrder(u, a, i + 1)

\* the fragment of the last argument that has a non-empty one, else that of u
RECURSIVE lastFragment(_, _, _)
lastFragment(u, a, i) ==
  IF i = 0 THEN u.fragment
  ELSE IF Len(a[i]) > 0 /\ parsePath(a[i]).fragment.v # <<>> THEN parsePath(a[i]).fragment
  ELSE lastFragment(u, a, i - 1)

C10_ResolveResetsOnRooted ==
  (/\ op = "resolve"
   /\ Len(args.a) = 1
   /\ Len(args.a[1]) > 0
   /\ recv.kind = "full" => analyzeUrl(args.a[1]).kind = "invalid"
   /\ startsWith(parsePath(args.a[1]).pathname, "/")) =>
    /\ cur # UrlError
    /\ cur.pathname = parsePath(args.a[1]).pathname
    /\ cur.query = parsePath(args.a[1]).query
    /\ cur.fragment = parsePath(args.a[1]).fragment
    /\ cur.origin = recv.origin

(***************************************************************************)
(* C11: a FullPathUrl resolved against one argument that is a full         *)
(* hierarchical URL equals the FullPathUrl constructed from that argument: *)
(* origin, pathname, query and fragment all come from the argument, also   *)
(* when it is origin-only or has a query or fragment but no path.          *)
(***************************************************************************)
C11_ResolveRestartsOnFullUrl ==
  (/\ op = "resolve"
   /\ recv.kind = "full"
   /\ Len(args.a) = 1
   /\ analyzeUrl(args.a[1]).kind = "hierarchical")
    => cur = FullPathUrl_new(parseFullUrl(args.a[1]))

(***************************************************************************)
(* C12: a URL path is a directory exactly when its pathname ends with '/'  *)
(* or is '/' or '.'.  A directory has no filename, stem or extension, and  *)
(* replaceFilename, replaceStem, replaceExtension and transformFilename on *)
(* it throw the directory error and give no instance; a path that is not a *)
(* directory has its last segment as its filename.                         *)
(***************************************************************************)
FilenameOperations == {"replaceFilename", "replaceStem", "replaceExtension", "transformFilename"}

directoryPathname(p) == (Len(p) > 0 /\ p[Len(p)] = "/") \/ p = <<"/">> \/ p = <<".">>

C12_DirectoryHasNoFilename ==
  /\ op = "new" =>
       /\ UrlBase_isDirectory(cur) <=> directoryPathname(cur.pathname)
       /\ UrlBase_isDirectory(cur) =>
            /\ UrlBase_filename(cur) = Undefined
            /\ UrlBase_stem(cur) = Undefined
            /\ UrlBase_extension(cur) = Undefined
       /\ ~UrlBase_isDirectory(cur) => UrlBase_filename(cur) = UrlBase_leaf(cur)
  /\ (op \in FilenameOperations /\ UrlBase_isDirectory(recv)) => cur = DirectoryError

C12_Witness ==
  /\ op = "replaceStem"
  /\ UrlBase_isDirectory(recv)
  /\ recv.pathname = <<"/", "a", "/">>
  /\ cur = DirectoryError

(***************************************************************************)
(* C13: pathUrl has exactly one outcome per input.  An instance comes back *)
(* unchanged.  A string with a hierarchical scheme and '//', or with a     *)
(* bare '//', and a valid authority gives a FullPathUrl; any other string  *)
(* with a scheme prefix throws the non-hierarchical error; a malformed     *)
(* authority throws the invalid-origin error; every other string gives a   *)
(* RootPathUrl if it starts with '/' and a RelativePathUrl if not.  new    *)
(* FullPathUrl on a string without a scheme prefix throws 'Invalid URL'.   *)
(***************************************************************************)
hasSchemePrefix(s) == Len(schemeOf(s)) > 0

hasSlashSlash(s) ==
  Len(sliceFrom(s, Len(schemeOf(s)))) >= 2
    /\ sliceFrom(s, Len(schemeOf(s)))[1] = "/" /\ sliceFrom(s, Len(schemeOf(s)))[2] = "/"

\* the outcome the classification gives to a string: a kind, or an error message
classOf(s) ==
  IF hasSlashSlash(s) /\ (~hasSchemePrefix(s) \/ toLowerCase(schemeOf(s)) \in hierarchicalSchemes)
    THEN (IF analyzeUrl(s).kind = "invalid-origin" THEN "Invalid origin" ELSE "full")
  ELSE IF hasSchemePrefix(s) THEN "URL is non-hierarchical"
  ELSE IF startsWith(s, "/") THEN "root"
  ELSE "relative"

C13_PathUrlClassifies ==
  /\ op = "pathUrl of instance" => out = [instance |-> cur, thrown |-> NotThrown]
  /\ op = "pathUrl" =>
       IF classOf(cur) \in UrlKinds
         THEN out.instance.kind = classOf(cur) /\ out.thrown = NotThrown
         ELSE out.instance = UrlError /\ out.thrown = classOf(cur)
  /\ (op = "new FullPathUrl" /\ ~hasSchemePrefix(cur) /\ ~hasSlashSlash(cur)) =>
       out.instance = UrlError /\ out.thrown = "Invalid URL"

(***************************************************************************)
(* C14: replaceParent on a URL path keeps the receiver's kind, its last    *)
(* segment, its query, its fragment and its directory flag; the segments   *)
(* before the last one are the normalized segments of newParent, and the   *)
(* result is absolute exactly when the receiver is.                        *)
(***************************************************************************)
\* the normalized segments of newParent: of a string's pathname, or of an instance
newParentSegments(a) ==
  SelectSeq(split(pth_normalize(IF a.form = "instance" THEN a.a.pathname
                                ELSE parsePath(a.a).pathname), "/"),
            LAMBDA x : x # <<>> /\ x # <<".">>)

\* the receiver's last segment, none for the nil path '.'
leafSegments(u) ==
  IF UrlBase_leaf(u).present /\ UrlBase_leaf(u).v # <<".">> THEN <<UrlBase_leaf(u).v>> ELSE <<>>

C14_ReplaceParentKeepsLeaf ==
  op = "replaceParent" =>
    /\ cur.kind = recv.kind
    /\ pth_isAbsolute(cur.pathname) <=> pth_isAbsolute(recv.pathname)
    /\ cur.query = recv.query
    /\ cur.fragment = recv.fragment
    /\ UrlBase_isDirectory(cur) <=> UrlBase_isDirectory(recv)
    /\ UrlBase_segments(cur) = newParentSegments(args) \o leafSegments(recv)

(***************************************************************************)
(* C15: equals on a plain path compares normalized forms: p.equals(s) is   *)
(* true exactly when normalizing s gives p's own string, so an             *)
(* AbsolutePath never equals a relative string and a RelativePath never    *)
(* equals an absolute string.                                              *)
(***************************************************************************)
C15_EqualsComparesNormalized ==
  op = "equals" => (out <=> pth_normalize(args) = recv.path)

(***************************************************************************)
(* C16: the kind is fixed at construction and preserved by every           *)
(* operation: after any sequence of operations the path string of a plain  *)
(* path, or the pathname of a URL path, starts with '/' exactly when the   *)
(* class is an absolute kind (AbsolutePath, RootPathUrl, FullPathUrl); and *)
(* a constructor given a path of the wrong absoluteness throws.            *)
(***************************************************************************)
AbsoluteKinds == {"abs", "root", "full"}

\* the path string or the pathname of an instance of either family
pathOf(u) == IF u.kind \in PlainKinds THEN u.path ELSE u.pathname

KindPreserved ==
  cur.kind # "error" => (pth_isAbsolute(pathOf(cur)) <=> cur.kind \in AbsoluteKinds)

\* the constructor call of an initial state is given a path (a string of a
\* plain or path-only URL class, or the pathname of a parts object) whose
\* absoluteness is not that of the class
wrongAbsoluteness ==
  /\ op = "new"
  /\ Len(args) = 3
  /\ args[1] = "string" => args[2] # "full"
  /\ pth_isAbsolute(args[3]) # (args[2] \in AbsoluteKinds)

C16_KindPreserved ==
  /\ KindPreserved
  /\ wrongAbsoluteness => cur.kind = "error"

(***************************************************************************)
(* C17: the segment invariant: the segments list of every plain or URL     *)
(* path reachable by construction and operations holds no '.' segment, and *)
(* holds '..' only as a leading run of a relative path, never in an        *)
(* absolute or rooted path; the nil paths '.' and '/' have no segments.    *)
(***************************************************************************)
segmentsOf(u) == IF u.kind \in PlainKinds THEN PathBase_segments(u) ELSE UrlBase_segments(u)

noDotSegment(segs) == \A i \in 1..Len(segs) : segs[i] # <<".">>

dotDotOnlyLeading(segs, absolute) ==
  \A i \in 1..Len(segs) :
    segs[i] = <<".", ".">> => (~absolute /\ \A j \in 1..(i - 1) : segs[j] = <<".", ".">>)

nilHasNoSegments(path, segs) == path \in {<<".">>, <<"/">>} => segs = <<>>

SegmentInvariant(path, segs, absolute) ==
  /\ noDotSegment(segs)
  /\ dotDotOnlyLeading(segs, absolute)
  /\ nilHasNoSegments(path, segs)

C17_SegmentInvariant ==
  cur.kind # "error" => SegmentInvariant(pathOf(cur), segmentsOf(cur), cur.kind \in AbsoluteKinds)

(***************************************************************************)
(* C18: instances are immutable and share no mutable backing: whatever the *)
(* caller does to a query object (or an array in it) that it passed to a   *)
(* constructor, replaceQuery or mergeQuery or got from the query getter,   *)
(* or to a parts object it passed to a constructor, and whatever operation *)
(* is called, every instance goes on reporting the origin, pathname, query *)
(* and fragment it reported when it was made; and the constructor leaves   *)
(* the parts object as it was given.                                       *)
(***************************************************************************)
C18_NoSharedBacking ==
  /\ \A i \in 1..Len(cur.insts) : Report(cur, cur.insts[i]) = out[i]
  /\ op = "new" => args.parts = args.given

(***************************************************************************)
(* C19: for every URL path u, u.parent is a directory path (isDirectory is *)
(* true) with the query and the fragment of u.                             *)
(***************************************************************************)
C19_ParentIsDirectory ==
  op = "parent" =>
    /\ cur.kind \in UrlKinds
    /\ UrlBase_isDirectory(cur)
    /\ cur.query = recv.query
    /\ cur.fragment = recv.fragment

(***************************************************************************)
(* C20: query serialization is canonical: toString emits the query keys in *)
(* sorted key order, each multi-valued key as repeated key=value pairs in  *)
(* array order, so two URL paths whose queries hold the same keys and      *)
(* values have the same string whatever order the keys were set in.        *)
(***************************************************************************)
\* a < b in the order of Array.prototype.sort on strings (by code unit)
RECURSIVE stringLess(_, _)
stringLess(a, b) ==
  IF Len(b) = 0 THEN FALSE
  ELSE IF Len(a) = 0 THEN TRUE
  ELSE IF a[1] # b[1] THEN Ord[a[1]] < Ord[b[1]]
  ELSE stringLess(Tail(a), Tail(b))

RECURSIVE insertByKey(_, _)
insertByKey(sorted, e) ==
  IF Len(sorted) = 0 THEN <<e>>
  ELSE IF stringLess(e.k, sorted[1].k) THEN <<e>> \o sorted
  ELSE <<sorted[1]>> \o insertByKey(Tail(sorted), e)

RECURSIVE sortByKey(_)
sortByKey(ent) ==
  IF Len(ent) = 0 THEN <<>> ELSE insertByKey(sortByKey(Tail(ent)), ent[1])

\* the string of u with its query keys in sorted order
canonicalString(u) ==
  Url_toString([u EXCEPT !.query = [present |-> u.query.present, ent |-> sortByKey(u.query.ent)]])

C20_QueryKeysSorted ==
  op = "toString" => out = canonicalString(cur)
(***************************************************************************)
(* C21: child.relativeTo(base) of two RootPathUrl values, or of two        *)
(* FullPathUrl values of one origin, does not throw and is the             *)
(* RelativePathUrl whose pathname is one '..' per base segment after the   *)
(* common prefix, then child's segments after it ('.' when there are       *)
(* none), with child's query and fragment.                                 *)
(***************************************************************************)
RECURSIVE commonPrefixLen(_, _)
commonPrefixLen(xs, ys) ==
  IF xs = <<>> \/ ys = <<>> \/ Head(xs) # Head(ys) THEN 0
  ELSE 1 + commonPrefixLen(Tail(xs), Tail(ys))

\* the relative difference of two segment lists, as a pathname
segmentDifference(baseSegs, childSegs) ==
  LET n == commonPrefixLen(baseSegs, childSegs)
      diff == [k \in 1..(Len(baseSegs) - n) |-> <<".", ".">>]
                \o SubSeq(childSegs, n + 1, Len(childSegs))
  IN IF diff = <<>> THEN <<".">> ELSE joinWith(diff, "/")

C21_RelativeToKeepsDecorations ==
  (op = "relativeTo" /\ recv.kind \in UrlKinds /\ recv.origin = args.origin) =>
    /\ cur.kind = "relative"
    /\ cur.pathname = segmentDifference(UrlBase_segments(args), UrlBase_segments(recv))
    /\ cur.query = recv.query
    /\ cur.fragment = recv.fragment

(***************************************************************************)
(* C22: a URL path constructed from a string is split by the positions of  *)
(* '?' and '#' alone: the fragment is the text after the last '#' at or    *)
(* after the last '?', the query the text after the last '?' of the rest,  *)
(* and the pathname everything before, wherever the string has a '/'.      *)
(***************************************************************************)
\* the split of s as [pathname, hasQuery, queryStr, fragment]
decorationSplit(s) ==
  LET queryIndex == lastIndexOf(s, "?")
      hashIndex == lastIndexOf(s, "#")
      hasFragment == hashIndex # -1 /\ hashIndex > queryIndex
      rest == IF hasFragment THEN sliceTo(s, hashIndex) ELSE s
  IN [pathname |-> IF queryIndex = -1 THEN rest ELSE sliceTo(rest, queryIndex),
      hasQuery |-> queryIndex # -1,
      queryStr |-> IF queryIndex = -1 THEN <<>> ELSE sliceFrom(rest, queryIndex + 1),
      fragment |-> IF hasFragment THEN Fragment(sliceFrom(s, hashIndex + 1)) ELSE NoFragment]

splitAgrees(u, d) ==
  /\ u.pathname = urt_normalizePathname(d.pathname)
  /\ u.fragment = d.fragment
  /\ u.query.present = d.hasQuery
  /\ d.hasQuery /\ parseQuery(d.queryStr).ok => u.query = parseQuery(d.queryStr).q

C22_SplitByMarkersOnly ==
  (op = "new" /\ args.form = "string" /\ cur.kind \in {"relative", "root"}) =>
    splitAgrees(cur, decorationSplit(args.s))

(***************************************************************************)
(* C23: the query of a URL path constructed from a string holds every      *)
(* value of the query string: each non-empty pair between '&' signs gives  *)
(* its key, the text before the first '=', and its value, all the text     *)
(* after the first '=' ('' without '='), both decoded; a key that occurs   *)
(* twice or more maps to the array of all its values in order, empty ones  *)
(* included, and a key that occurs once to a scalar.                       *)
(***************************************************************************)
keyOfPair(pair) == IF indexOf(pair, "=") = -1 THEN pair ELSE sliceTo(pair, indexOf(pair, "="))

valueOfPair(pair) == IF indexOf(pair, "=") = -1 THEN <<>> ELSE sliceFrom(pair, indexOf(pair, "=") + 1)

\* the decoded values of the pairs with the decoded key k, in order
RECURSIVE valuesOfKey(_, _)
valuesOfKey(pairs, k) ==
  IF pairs = <<>> THEN <<>>
  ELSE (IF Head(pairs) # <<>> /\ decodeURIComponent(keyOfPair(Head(pairs))).s = k
          THEN <<decodeURIComponent(valueOfPair(Head(pairs))).s>> ELSE <<>>)
         \o valuesOfKey(Tail(pairs), k)

holdsEveryValue(q, pairs) ==
  /\ q.present
  /\ \A i \in 1..Len(q.ent) : valuesOfKey(pairs, q.ent[i].k) # <<>>
  /\ \A i \in 1..Len(pairs) :
       pairs[i] # <<>> =>
         LET k == decodeURIComponent(keyOfPair(pairs[i])).s
         IN /\ hasKey(q, k)
            /\ valueOf(q, k).vs = valuesOfKey(pairs, k)
            /\ valueOf(q, k).arr <=> Len(valuesOfKey(pairs, k)) >= 2

\* the query string of a string with a '?' and neither '/' nor '#', without
\* the one leading '?' that parseQuery allows a query string to have
plainQueryString(s) ==
  LET q == sliceFrom(s, indexOf(s, "?") + 1)
  IN IF startsWith(q, "?") THEN sliceFrom(q, 1) ELSE q

C23_QueryKeepsEveryValue ==
  (/\ op = "new" /\ args.form = "string" /\ cur.kind = "relative"
   /\ contains(args.s, "?") /\ ~contains(args.s, "/") /\ ~contains(args.s, "#")) =>
    holdsEveryValue(cur.query, split(plainQueryString(args.s), "&"))

(***************************************************************************)
(* C24: after u.join(...) with at least one non-empty argument the result  *)
(* is a directory exactly when the pathname of the last argument ends with *)
(* '/'; u.join('/') has the segments of u.                                 *)
(***************************************************************************)
lastOf(xs) == xs[Len(xs)]

isNilPathname(p) == p = <<"/">> \/ p = <<".">>

C24_JoinDirectoryFlag ==
  (op = "join" /\ filterBoolean(args.a) # <<>> /\ cur # UrlError) =>
    /\ UrlBase_isDirectory(cur)
         <=> endsWith(decorationSplit(lastOf(filterBoolean(args.a))).pathname, "/")
    /\ args.a = << <<"/">> >> => UrlBase_segments(cur) = UrlBase_segments(recv)

(***************************************************************************)
(* C25: the pathname of every URL path instance, however it was made, is   *)
(* in normal form: no empty segment, no '.' segment, at most one trailing  *)
(* slash, and when it has no segment left it is the nil path, '/' for the  *)
(* rooted kinds and '.' for the relative kind.                             *)
(***************************************************************************)
hasEmptySegment(p) == \E i \in 1..(Len(p) - 1) : p[i] = "/" /\ p[i + 1] = "/"

hasDotSegment(p) == \E i \in 1..Len(split(p, "/")) : split(p, "/")[i] = <<".">>

nilPathname(kind) == IF kind = "relative" THEN <<".">> ELSE <<"/">>

inNormalForm(p, kind) ==
  IF filterBoolean(split(p, "/")) = <<>> \/ p = <<".">> THEN p = nilPathname(kind)
  ELSE ~hasEmptySegment(p) /\ ~hasDotSegment(p)

C25_PathnameInNormalForm ==
  cur.kind \in UrlKinds => inNormalForm(cur.pathname, cur.kind)

(***************************************************************************)
(* C26: the origin of every FullPathUrl instance is lower-case in scheme   *)
(* and host, whether the instance was constructed from a string, a native  *)
(* URL or a parts object, or made by replaceOrigin or resolve.             *)
(***************************************************************************)
C26_OriginLowerCase ==
  cur.kind = "full" => cur.origin = toLowerCase(cur.origin)

(***************************************************************************)
(* C27: replaceFilename(r), replaceStem(r), replaceExtension(r) and        *)
(* transformFilename(_ => r) on a plain path or a non-directory URL path   *)
(* p give, for every string r, a path whose parent is p's parent.          *)
(***************************************************************************)
parentOf(u) == IF u.kind \in PlainKinds THEN PathBase_parent(u) ELSE UrlBase_parent(u)

C27_FilenameOpsKeepParent ==
  (op \in {"replaceFilename", "replaceStem", "replaceExtension", "transformFilename"}
     /\ cur.kind # "error") =>
    pathOf(parentOf(cur)) = pathOf(parentOf(recv))

(***************************************************************************)
(* C28: for every Filename f, stem followed by extension is f's string;    *)
(* the extension is the text from the last '.' to the end when that '.'    *)
(* is not the first character, and '' otherwise; and replaceStem with f's  *)
(* own stem gives a Filename equal to f.                                   *)
(***************************************************************************)
fromLastDot(s) == IF lastIndexOf(s, ".") > 0 THEN sliceFrom(s, lastIndexOf(s, ".")) ELSE <<>>

C28_StemAndExtensionPartition ==
  /\ op = "read" =>
       /\ out.stem \o out.extension = out.string
       /\ out.extension = fromLastDot(out.string)
  /\ (op = "replaceStem" /\ args = Filename_stem(recv)) => cur = recv

\* the getters have been read on a dotfile with an extension, and a
\* Filename with an extension has had its own stem put back
C28_Witness ==
  \/ /\ op = "read"
     /\ out.stem = <<".", "a">>
     /\ out.extension = <<".", "a">>
  \/ /\ op = "replaceStem"
     /\ args = Filename_stem(recv)
     /\ Filename_extension(recv) # <<>>
     /\ cur = recv

(***************************************************************************)
(* C29: for two absolute paths of one class (and one origin),              *)
(* p.descendsFrom(a) is true exactly when a's segments are a proper prefix *)
(* of p's segments, whatever the segments' names; when the segment lists   *)
(* are equal it is false, and true with includeSelf.                       *)
(***************************************************************************)
isPrefix(xs, ys) == Len(xs) <= Len(ys) /\ SubSeq(ys, 1, Len(xs)) = xs

descends(ancestorSegs, segs, includeSelf) ==
  isPrefix(ancestorSegs, segs) /\ (Len(ancestorSegs) < Len(segs) \/ includeSelf)

C29_DescendsFromIsPrefixTest ==
  (op = "descendsFrom" /\ (recv.kind = "full" => recv.origin = args.ancestor.origin)) =>
    (out <=> descends(segmentsOf(args.ancestor), segmentsOf(recv), args.includeSelf))

(***************************************************************************)
(* C30: join and resolve with arguments that hold only a query and/or a    *)
(* fragment return a URL path with exactly the receiver's pathname, its    *)
(* trailing slash included, so that isDirectory is unchanged.              *)
(***************************************************************************)
C30_DecorationArgKeepsPathname ==
  (op \in {"join", "resolve"}) =>
    /\ cur.kind = recv.kind
    /\ cur.pathname = recv.pathname
    /\ UrlBase_isDirectory(cur) = UrlBase_isDirectory(recv)
====
